---- MODULE Spec2Model ----
(***************************************************************************)
(* Resume improver: the command-line workflow of resumeimprover.py         *)
(* (main -> ResumeImproverCLI.run -> ResumeImprover), the turn-taking      *)
(* text pipeline built by ResumeTeam.create_team, the single-shot image    *)
(* agent, and the export step.                                             *)
(*                                                                         *)
(* Python strings are sequences of one-character strings, so that          *)
(* substring tests, strip() and lower() are computed, not assumed.         *)
(* Optional[str] is a record [some, val]; None is NoneStr.                 *)
(***************************************************************************)
EXTENDS Integers, Sequences, FiniteSets, TLC

(* ------------------------------ bounds --------------------------------- *)

\* Rounds of the turn-taking group that the model explores.
MaxRounds == 2

\* Pages of the input PDF that the model explores.
MaxPages == 2

\* Longest message list of a substituted (test double) stream.
MaxStreamLen == 2

\* Clients that one ModelManager constructs in the model.
MaxClients == 2

\* Constructions of one agent by repeated builds in the model.
MaxBuilds == 2

\* Images given to one save_images call.
MaxSaved == 10

(* ------------------------------ strings -------------------------------- *)

Whitespace == {" ", "\n"}

\* str.strip(): drop leading, then trailing, whitespace.
RECURSIVE LStrip(_)
LStrip(s) ==
    IF s # <<>> /\ Head(s) \in Whitespace THEN LStrip(Tail(s)) ELSE s

RECURSIVE RStrip(_)
RStrip(s) ==
    IF s # <<>> /\ s[Len(s)] \in Whitespace
    THEN RStrip(SubSeq(s, 1, Len(s) - 1))
    ELSE s

Strip(s) == RStrip(LStrip(s))

\* Python's `sub in text`.
Contains(text, sub) ==
    \E i \in 0..(Len(text) - Len(sub)) :
        SubSeq(text, i + 1, i + Len(sub)) = sub

\* str.lower() on the characters the sample paths use.
LowerChar(c) ==
    CASE c = "P" -> "p"
      [] c = "D" -> "d"
      [] c = "F" -> "f"
      [] OTHER -> c

Lower(s) == [i \in 1..Len(s) |-> LowerChar(s[i])]

\* str.endswith(suffix).
EndsWith(s, suffix) ==
    /\ Len(s) >= Len(suffix)
    /\ SubSeq(s, Len(s) - Len(suffix) + 1, Len(s)) = suffix

\* str.rfind("."), counted from 1: 0 when there is no dot.
LastDot(s) ==
    IF \E i \in 1..Len(s) : s[i] = "."
    THEN CHOOSE i \in 1..Len(s) :
             /\ s[i] = "."
             /\ \A j \in (i + 1)..Len(s) : s[j] # "."
    ELSE 0

\* str.find("/"), counted from 1: one past the end when there is none.
FirstSlash(s) ==
    IF \E i \in 1..Len(s) : s[i] = "/"
    THEN CHOOSE i \in 1..Len(s) :
             /\ s[i] = "/"
             /\ \A j \in 1..(i - 1) : s[j] # "/"
    ELSE Len(s) + 1

\* The components pathlib keeps of a POSIX path: empty ones and "." are
\* dropped.
RECURSIVE PathParts(_)
PathParts(s) ==
    IF s = << >> THEN << >>
    ELSE LET k == FirstSlash(s)
             head == SubSeq(s, 1, k - 1)
         IN  (IF head \in { << >>, <<".">> } THEN << >> ELSE << head >>)
                 \o PathParts(SubSeq(s, k + 1, Len(s)))

\* pathlib.Path(s): the root, if any, and the components.
PathOf(s) ==
    [anchor |-> Len(s) > 0 /\ s[1] = "/", parts |-> PathParts(s)]

RECURSIVE JoinParts(_)
JoinParts(parts) ==
    IF Len(parts) = 0 THEN << >>
    ELSE IF Len(parts) = 1 THEN parts[1]
    ELSE parts[1] \o <<"/">> \o JoinParts(Tail(parts))

\* str(path).
PathStr(p) ==
    IF p.parts = << >> THEN (IF p.anchor THEN <<"/">> ELSE <<".">>)
    ELSE (IF p.anchor THEN <<"/">> ELSE << >>) \o JoinParts(p.parts)

\* path.name: the last component, "" when there is none.
PathName(p) == IF p.parts = << >> THEN << >> ELSE p.parts[Len(p.parts)]

\* Variant: the directory is lost, the current directory stands in.
ParentDropped(p) == [anchor |-> FALSE, parts |-> << >>]

\* path.parent: the path without its last component.
Parent(p) ==
    IF p.parts = << >> THEN p
    ELSE [anchor |-> p.anchor, parts |-> SubSeq(p.parts, 1, Len(p.parts) - 1)]

\* path / name, for a relative name.
Div(p, name) == [anchor |-> p.anchor, parts |-> p.parts \o PathParts(name)]

\* The suffix of a file name: from the last dot on, empty when there is no
\* dot or when the last dot leads or ends the name.
NameSuffix(n) ==
    IF 1 < LastDot(n) /\ LastDot(n) < Len(n)
    THEN SubSeq(n, LastDot(n), Len(n))
    ELSE << >>

\* pathlib.Path(s).suffix and pathlib.Path(s).stem.
PathSuffix(s) == NameSuffix(PathName(PathOf(s)))

Stem(s) ==
    LET n == PathName(PathOf(s))
    IN  SubSeq(n, 1, Len(n) - Len(NameSuffix(n)))

DotPdf == <<".", "p", "d", "f">>

(* ------------------------------ Optional ------------------------------- *)

NoneStr == [some |-> FALSE, val |-> <<>>]
Some(s) == [some |-> TRUE, val |-> s]

\* Variant: only None is falsy (an `is not None` test).
IsNotNone(o) == o.some

\* Python truthiness of an Optional[str]: None and "" are falsy.
Truthy(o) == o.some /\ o.val # <<>>

(* ------------------------------ samples -------------------------------- *)

\* The marker of TextMentionTermination("FINAL", ...).
FINAL == <<"F", "I", "N", "A", "L">>

\* Message contents a model reply may carry: an empty reply, a reply with
\* the marker in another case, a reply with the marker inside other text.
Contents ==
    { <<>>,
      <<"f", "i", "n", "a", "l">>,
      <<"o", "k", " ">> \o FINAL \o <<"!">> }

\* What PyPDF2 may hand back before extract_text strips it; <<>> also
\* stands for a parse failure swallowed by extract_text.
RawTexts == { <<>>, <<" ", "\n">>, <<"c", "v", "\n">> }

\* Command-line arguments / typed input.
Paths ==
    { <<>>,
      <<"a", ".", "p", "d", "f">>,
      <<"a", ".", "P", "D", "F">>,
      <<"a", ".", "t", "x", "t">> }

\* Environment: each variable is either empty/unset ("") or set.
Envs == [api_key : {"", "k"}, endpoint : {"", "e"}]

PromptNames ==
    { "resume_team_task_prompt",
      "resume_draft_agent_prompt",
      "resume_enhancement_agent_prompt",
      "resume_conciseness_agent_prompt",
      "resume_image_agent_prompt" }

\* The text of the task prompt file; it instructs the team to end with
\* the marker, so the marker occurs in the task message itself.
TaskPromptText == <<"e", "n", "d", ":">> \o FINAL

\* f"{task_prompt}\n\nOriginal Resume Text:\n{resume_text}"
TaskText(task_prompt, resume_text) ==
    task_prompt \o <<"\n", "\n", "T", ":", "\n">> \o resume_text

(* ------------------------------- state --------------------------------- *)

VARIABLES
    pc,              \* where main() / ResumeImproverCLI.run stands
    handler,         \* the except clause that took an exception, if any
    outcome,         \* what the run reported last
    error,           \* the message of the exception raised, "" if none
    config,          \* ModelManager._config
    client,          \* ModelManager._client: 0 is None, n the n-th client built
    prompt_files,    \* prompt templates present in the prompts directory
    prompt_cache,    \* PromptManager._prompt_cache (its keys)
    agents,          \* AssistantAgent objects created so far, by name
    team,            \* ResumeTeam._team
    image_agent,     \* ResumeTeam._image_agent
    pdf_path,        \* run's pdf_path
    path_exists,     \* whether pdf_path names an existing file
    resume_text,     \* text returned by process_pdf_file
    resume_images,   \* page images returned by process_pdf_file, by page number
    messages,        \* messages emitted by the text pipeline's stream, in order
    next_speaker,    \* index of the group's next speaker
    improve_result,  \* improve_resume_text's improve_result
    image_messages,  \* messages emitted by the image agent's stream, in order
    result,          \* generate_resume_image's result
    stream_done,     \* the stream being iterated is exhausted
    inflight,        \* agents with an inference request outstanding
    inference_calls, \* inference requests issued so far
    improved_text,   \* improve_resume's improved_text
    image_task,      \* the MultiModalMessage handed to the image agent
    final_content,   \* improve_resume's final_content / run's final_resume_content
    save_calls,      \* calls of save_improved_resume so far
    output_path,     \* path returned by save_improved_resume
    prior_config,    \* the ModelConfig instance update_config last replaced
    clients_built,   \* AzureOpenAIChatCompletionClient objects constructed
    client_args,     \* keyword arguments of the latest client construction
    mm_call,         \* the last call made on ModelConfig / ModelManager
    prompt_text,     \* the text of each prompt template file
    cached_text,     \* PromptManager._prompt_cache (its values)
    file_reads,      \* times each prompt template file was opened and read
    pm_call,         \* the last call made on PromptManager
    constructed,     \* agents, termination conditions, groups constructed
    tm_call,         \* the last call made on ResumeTeam
    pdf_call,        \* the last call made on PDFProcessor
    fm_call,         \* the last call made on the file helpers
    disk,            \* paths of the files and directories that exist
    agent_client     \* model_client of the latest agent of each name, 0 if none

vars ==
    << pc, handler, outcome, error, config, client, prompt_files, prompt_cache,
       agents, team, image_agent, pdf_path, path_exists, resume_text,
       resume_images, messages, next_speaker, improve_result, image_messages,
       result, stream_done, inflight, inference_calls, improved_text,
       image_task, final_content, save_calls, output_path, prior_config,
       clients_built, client_args, mm_call, prompt_text, cached_text,
       file_reads, pm_call, constructed, tm_call, pdf_call, agent_client,
       fm_call, disk >>

\* What ModelManager.client reads and writes.
client_slot == << client, clients_built, client_args >>

\* What PromptManager, AgentFactory and ResumeTeam hold.
prompt_slots == << prompt_cache, cached_text, file_reads >>
team_slots ==
    << prompt_slots, agents, team, image_agent, constructed, agent_client >>

\* Everything the model manager, the prompt loader and the team own.
components == << config, prior_config, client_slot, team_slots >>

\* What the workflow of main() never touches: the prompts directory and the
\* record of calls made on a component by another caller.
files == << fm_call, disk >>

outside ==
    << prompt_files, prompt_text, mm_call, pm_call, tm_call, pdf_call, files >>

\* The locals of run / improve_resume.
locals ==
    << pdf_path, path_exists, resume_text, resume_images, improved_text,
       image_task, final_content, save_calls, output_path >>

\* The two message streams.
streams ==
    << messages, next_speaker, improve_result, image_messages, result,
       stream_done, inflight, inference_calls >>

\* The position of main() / run, their locals and the streams.
workflow == << pc, handler, outcome, error, locals, streams >>

\* What a call on ModelConfig / ModelManager leaves alone.
beside_manager ==
    << workflow, prompt_files, prompt_text, team_slots, pm_call, tm_call,
       pdf_call, files >>

NoConfig ==
    [api_key |-> "", endpoint |-> "", api_version |-> "", deployment_name |-> ""]

NoTeam ==
    [built |-> FALSE, participants |-> <<>>, text |-> <<>>, sources |-> {}]

NoResult == [kind |-> "None", messages |-> <<>>]
TaskResult(msgs) == [kind |-> "TaskResult", messages |-> msgs]

NoTask == [text |-> <<>>, image |-> 0]

\* No client has been constructed: no keyword arguments.
NoArgs ==
    [azure_deployment |-> "", model |-> "", api_key |-> "",
     azure_endpoint |-> "", api_version |-> ""]

\* The templates as shipped in the prompts directory: one line of text and
\* a final newline.
PromptFileText(n) ==
    IF n = "resume_team_task_prompt" THEN TaskPromptText \o <<"\n">>
                                     ELSE <<"p", "\n">>

\* What ResumeTeam and AgentFactory construct: the four agents by name, the
\* termination condition and the group.
GroupParts == {"TextMentionTermination", "RoundRobinGroupChat"}
Constructibles ==
    { "ResumeDraftAgent", "ResumeEnhancementAgent", "ResumeConcisenessAgent",
      "ResumeImageAgent" } \cup GroupParts

\* No call has been made on PromptManager.  `hit` tells whether the name
\* was in the cache when the call began and `present` whether its file
\* existed then, `raised` is the message of the FileNotFoundError raised
\* (empty if none), `ret` the text returned.
NoLoad ==
    [op |-> "none", name |-> "", hit |-> FALSE, present |-> FALSE,
     raised |-> << >>, ret |-> NoneStr]

\* No call has been made on ResumeTeam.  `built` tells whether the slot the
\* call serves was filled when it began, `ret` is the object returned: the
\* n-th group or image agent constructed, 0 if the call raised.
NoTeamCall == [op |-> "none", built |-> FALSE, raised |-> FALSE, ret |-> 0]

\* No call has been made on PDFProcessor.  `exists` tells whether the path
\* named an existing file, `failed` whether reading the PDF raised inside
\* the call, `raised` is the message of the exception that left the call
\* (empty if none), `text` / `images` what the call returned.
NoPdfCall ==
    [op |-> "none", path |-> << >>, exists |-> FALSE, failed |-> FALSE,
     dpi |-> 0, raised |-> << >>, text |-> << >>, images |-> << >>]

\* No call has been made on the file helpers: `path` / `arg` are the
\* arguments, `raised` the class of the exception raised ("" if none) and
\* `message` its text, `ret` the path returned, `images` the images given,
\* `writes` the files written in order, `paths` the list returned.
NoFileCall ==
    [op |-> "none", path |-> << >>, arg |-> << >>, exists |-> FALSE,
     raised |-> "", message |-> << >>, ret |-> << >>, images |-> << >>,
     writes |-> << >>, paths |-> << >>]

\* No call has been made on ModelConfig / ModelManager.
\* `input` is the call's keyword arguments (or the environment it read),
\* `cached` whether ModelManager._client was set when the call began,
\* `raised` the message of the exception raised ("" if none), `ret` the
\* client handle returned, `made` the ModelConfig instance built.
NoCall ==
    [op |-> "none", input |-> << >>, cached |-> FALSE, raised |-> "",
     ret |-> 0, made |-> NoConfig]

Init ==
    /\ pc = "main"
    /\ handler = "none"
    /\ outcome = "none"
    /\ error = ""
    /\ config = NoConfig
    /\ client = 0
    /\ prompt_files \in SUBSET PromptNames
    /\ prompt_cache = {}
    /\ agents = {}
    /\ agent_client =
           [a \in {"ResumeDraftAgent", "ResumeEnhancementAgent",
                    "ResumeConcisenessAgent", "ResumeImageAgent"} |-> 0]
    /\ team = NoTeam
    /\ image_agent = FALSE
    /\ pdf_path = <<>>
    /\ path_exists = FALSE
    /\ resume_text = <<>>
    /\ resume_images = <<>>
    /\ messages = <<>>
    /\ next_speaker = 1
    /\ improve_result = NoResult
    /\ image_messages = <<>>
    /\ result = NoResult
    /\ stream_done = FALSE
    /\ inflight = {}
    /\ inference_calls = 0
    /\ improved_text = NoneStr
    /\ image_task = NoTask
    /\ final_content = NoneStr
    /\ save_calls = 0
    /\ output_path = <<>>
    /\ prior_config = NoConfig
    /\ clients_built = 0
    /\ client_args = NoArgs
    /\ mm_call = NoCall
    /\ prompt_text = [n \in PromptNames |-> PromptFileText(n)]
    /\ cached_text = [n \in PromptNames |-> << >>]
    /\ file_reads = [n \in PromptNames |-> 0]
    /\ pm_call = NoLoad
    /\ constructed = [k \in Constructibles |-> 0]
    /\ tm_call = NoTeamCall
    /\ pdf_call = NoPdfCall
    /\ fm_call = NoFileCall
    /\ disk = {}

(* --------------------------- leaving the run --------------------------- *)

\* An exception raised inside run's try block: the first matching clause of
\* `except FileNotFoundError / except ValueError / except Exception` prints
\* it and run returns.
ExceptClause(kind) ==
    CASE kind = "FileNotFoundError" -> "FileNotFoundError"
      [] kind = "ValueError" -> "ValueError"
      [] OTHER -> "Exception"

Caught(kind, msg) ==
    /\ pc' = "exited"
    /\ handler' = ExceptClause(kind)
    /\ outcome' = "error_printed"
    /\ error' = msg

(* ----------------------------- ModelConfig ----------------------------- *)

\* Variant: the endpoint is validated before the key.
MissingFieldEndpointFirst(c) ==
    IF c.endpoint = "" THEN "AZURE_OPENAI_ENDPOINT"
    ELSE IF c.api_key = "" THEN "AZURE_OPENAI_API_KEY"
    ELSE IF c.api_version = "" THEN "AZURE_OPENAI_API_VERSION"
    ELSE IF c.deployment_name = "" THEN "AZURE_OPENAI_DEPLOYMENT_NAME"
    ELSE ""

\* ModelConfig.__post_init__: the first empty field, "" when all are set.
MissingField(c) ==
    IF c.api_key = "" THEN "AZURE_OPENAI_API_KEY"
    ELSE IF c.endpoint = "" THEN "AZURE_OPENAI_ENDPOINT"
    ELSE IF c.api_version = "" THEN "AZURE_OPENAI_API_VERSION"
    ELSE IF c.deployment_name = "" THEN "AZURE_OPENAI_DEPLOYMENT_NAME"
    ELSE ""

\* ModelManager._load_config_from_env: the configuration built from the
\* environment, with the defaults of os.getenv.
ConfigFromEnv(env) ==
    [api_key |-> env.api_key, endpoint |-> env.endpoint,
     api_version |-> "2025-01-01", deployment_name |-> "gpt-4o"]

EnvComplete(env) == env.api_key # "" /\ env.endpoint # ""

(* ------------------------------- main ---------------------------------- *)

\* main(): cli = ResumeImproverCLI(), which builds ResumeImprover() and its
\* ModelManager(None) from the environment.  This statement stands outside
\* run's try block, so a ValueError from the configuration leaves main().
CLIInit ==
    /\ pc = "main"
    /\ \E env \in Envs :
        IF EnvComplete(env) /\ MissingField(ConfigFromEnv(env)) = ""
        THEN /\ config' = ConfigFromEnv(env)
             /\ pc' = "get_pdf_path"
             /\ UNCHANGED << handler, outcome, error >>
        ELSE /\ config' = config
             /\ pc' = "exited"
             /\ handler' = "uncaught"
             /\ outcome' = "traceback"
             /\ error' = "Please set Azure Open AI Endpoint Details"
    /\ UNCHANGED << prior_config, client_slot, outside, team_slots, locals,
                    streams >>

\* ResumeImproverCLI.get_pdf_path, first statement of run's try block.
GetPdfPath ==
    /\ pc = "get_pdf_path"
    /\ \E p \in Paths, e \in BOOLEAN :
        IF p = <<>>
        THEN /\ Caught("ValueError", "No file path provided")
             /\ UNCHANGED << pdf_path, path_exists >>
        ELSE /\ pdf_path' = p
             /\ path_exists' = e
             /\ pc' = "validate_pdf_file"
             /\ UNCHANGED << handler, outcome, error >>
    /\ UNCHANGED << components, outside, resume_text, resume_images,
                    improved_text, image_task, final_content, save_calls,
                    output_path, streams >>

\* ResumeImproverCLI.validate_pdf_file: the path the CLI accepts.
CliAccepts(p) == EndsWith(Lower(p), DotPdf)

ValidatePdfFile ==
    /\ pc = "validate_pdf_file"
    /\ IF ~path_exists
       THEN Caught("FileNotFoundError", "File not found")
       ELSE IF ~CliAccepts(pdf_path)
       THEN Caught("ValueError", "Please provide a PDF file")
       ELSE /\ pc' = "process_pdf_file"
            /\ UNCHANGED << handler, outcome, error >>
    /\ UNCHANGED << components, outside, locals, streams >>

\* FileManager.validate_pdf_path: the path the processor accepts.
ProcessorAccepts(p) == Lower(PathSuffix(p)) = DotPdf

\* PDFProcessor.convert_to_images: one image per page, [] on failure.
Pages(n) == [i \in 1..n |-> i]

\* Variant: an empty image list is let through.
NoImagesIgnored(images) == FALSE

\* process_pdf_file: `if not text_content.strip()` and `if not images`.
NoText(text_content) == Strip(text_content) = <<>>

NoImages(images) == images = <<>>

\* ResumeImprover.process_pdf_file over ResumeProcessor.process_pdf:
\* validate, extract the text (stripped), rasterize, then insist on both.
ProcessPdfFile ==
    /\ pc = "process_pdf_file"
    /\ \E raw \in RawTexts, n \in 0..MaxPages :
        LET text_content == Strip(raw)
            images == Pages(n)
        IN  IF ~path_exists
            THEN /\ Caught("FileNotFoundError", "File not found")
                 /\ UNCHANGED << resume_text, resume_images >>
            ELSE IF ~ProcessorAccepts(pdf_path)
            THEN /\ Caught("ValueError", "File is not a PDF")
                 /\ UNCHANGED << resume_text, resume_images >>
            ELSE IF NoText(text_content)
            THEN /\ Caught("ValueError", "No text could be extracted from the PDF")
                 /\ UNCHANGED << resume_text, resume_images >>
            ELSE IF NoImages(images)
            THEN /\ Caught("ValueError", "No images could be extracted from the PDF")
                 /\ UNCHANGED << resume_text, resume_images >>
            ELSE /\ resume_text' = text_content
                 /\ resume_images' = images
                 /\ pc' = "improve_resume_text"
                 /\ UNCHANGED << handler, outcome, error >>
    /\ UNCHANGED << components, outside, pdf_path, path_exists,
                    improved_text, image_task, final_content, save_calls,
                    output_path, streams >>

(* --------------------------- prompts, agents --------------------------- *)

DraftAgent == "ResumeDraftAgent"
EnhancementAgent == "ResumeEnhancementAgent"
ConcisenessAgent == "ResumeConcisenessAgent"
ImageAgent == "ResumeImageAgent"

\* AgentFactory.create_*_agent: the prompt each agent is built from.
AgentPrompt(a) ==
    CASE a = DraftAgent -> "resume_draft_agent_prompt"
      [] a = EnhancementAgent -> "resume_enhancement_agent_prompt"
      [] a = ConcisenessAgent -> "resume_conciseness_agent_prompt"
      [] a = ImageAgent -> "resume_image_agent_prompt"

\* PromptManager.load_prompt succeeds from the cache or from the file.
Available(name) == name \in prompt_cache \/ name \in prompt_files

\* ModelManager._create_client: the keyword arguments the client is
\* constructed with.
ClientArgs(c) ==
    [azure_deployment |-> c.deployment_name, model |-> c.deployment_name,
     api_key |-> c.api_key, azure_endpoint |-> c.endpoint,
     api_version |-> c.api_version]

\* Variant: load_prompt reads the file on every call.
LoadedFromFile(name) == Strip(prompt_text[name])

\* PromptManager.load_prompt when it succeeds: the cached text, or the
\* file's text stripped.
Loaded(name) ==
    IF name \in prompt_cache THEN cached_text[name]
                             ELSE Strip(prompt_text[name])

\* Successful loads of `names`: those not cached are read from their files
\* and stored.
LoadAll(names) ==
    /\ prompt_cache' = prompt_cache \cup names
    /\ cached_text' =
           [n \in PromptNames |->
               IF n \in names THEN Loaded(n) ELSE cached_text[n]]
    /\ file_reads' =
           [n \in PromptNames |->
               IF n \in names \ prompt_cache THEN file_reads[n] + 1
                                              ELSE file_reads[n]]

\* The objects `kinds` are constructed, one of each.
Construct(kinds) ==
    constructed' =
        [k \in Constructibles |->
            IF k \in kinds THEN constructed[k] + 1 ELSE constructed[k]]

\* Variant: the property constructs a client on every read.
ClientReadUncached(c) == clients_built + 1

\* ModelManager.client: the cached handle, built when the slot is empty.
ClientRead(c) == IF c = 0 THEN clients_built + 1 ELSE c

\* One read of ModelManager.client: a handle other than the cached one is
\* a client constructed by _create_client from the current configuration.
ReadClient ==
    LET h == ClientRead(client)
    IN  /\ client' = h
        /\ clients_built' = IF h = client THEN clients_built
                                          ELSE clients_built + 1
        /\ client_args' = IF h = client THEN client_args
                                        ELSE ClientArgs(config)

\* AssistantAgent(model_client=self.model_manager.client, ...) for each of
\* `names`: the agent keeps the handle the property returned.
Bind(names) ==
    agent_client' =
        [a \in DOMAIN agent_client |->
            IF a \in names THEN ClientRead(client) ELSE agent_client[a]]

\* Creating the agents `as` one after the other: each reads the client,
\* then loads its prompt; the first unavailable prompt raises.  Created(as)
\* is the number of agents built before that.
Created(as) ==
    IF \A i \in 1..Len(as) : Available(AgentPrompt(as[i]))
    THEN Len(as)
    ELSE (CHOOSE i \in 1..Len(as) :
              /\ ~Available(AgentPrompt(as[i]))
              /\ \A j \in 1..(i - 1) : Available(AgentPrompt(as[j]))) - 1

\* Variant: the enhancement agent is listed before the draft agent.
TeamOrderSwapped == << EnhancementAgent, DraftAgent, ConcisenessAgent >>

\* ResumeTeam.create_team: the agents in their fixed order.
TeamOrder == << DraftAgent, EnhancementAgent, ConcisenessAgent >>

\* Variant: create_team builds the pipeline on every call.
ToBuildAlways(t) == TeamOrder

\* ResumeTeam.create_team: the agents to create, none once _team is set.
ToBuild(t) == IF t.built THEN <<>> ELSE TeamOrder

\* Variant: get_image_agent builds the agent on every call.
ImageToBuildAlways(b) == << ImageAgent >>

\* ResumeTeam.get_image_agent: the agent to create, none once
\* _image_agent is set.
ImageToBuild(b) == IF b THEN <<>> ELSE << ImageAgent >>

\* ResumeTeam.create_team: the group and its termination condition.
BuiltTeam ==
    [built |-> TRUE,
     participants |-> TeamOrder,
     text |-> FINAL,
     sources |-> {ConcisenessAgent}]

\* Variant: the marker counts whoever emits it (no `sources`).
TerminatesAnySource(t, msg) == Contains(msg.content, t.text)

\* Variant: the group also stops after one round of turns (a max_turns).
TerminatesOrMaxTurns(t, msg) ==
    \/ msg.source \in t.sources /\ Contains(msg.content, t.text)
    \/ Len(messages) >= Len(t.participants)

\* Variant: any message of one of the sources stops the run.
TerminatesAnyText(t, msg) == msg.source \in t.sources

\* TextMentionTermination as configured: the message stops the run when its
\* source is one of the sources and its text mentions the marker.
Terminates(t, msg) ==
    /\ msg.source \in t.sources
    /\ Contains(msg.content, t.text)

\* Variant: the rotation skips a participant.
NextSpeakerSkipping(t, i) == ((i + 1) % Len(t.participants)) + 1

\* RoundRobinGroupChat: the speaker after the one at index i.
NextSpeaker(t, i) == (i % Len(t.participants)) + 1

\* ResumeImprover.improve_resume_text up to the start of the stream: load
\* the task prompt, build the task, create the team (on first use).  The
\* group opens the run with the task message, to which the termination
\* condition is applied like to any other message.
ImproveTextBegin ==
    /\ pc = "improve_resume_text"
    /\ LET as == ToBuild(team)
           k == Created(as)
           task == [source |-> "user",
                    content |-> TaskText(Loaded("resume_team_task_prompt"),
                                         resume_text)]
       IN  IF ~Available("resume_team_task_prompt")
           THEN /\ Caught("FileNotFoundError", "Prompt file not found")
                /\ UNCHANGED << components, streams >>
           ELSE IF k < Len(as)
           THEN /\ Caught("FileNotFoundError", "Prompt file not found")
                /\ ReadClient
                /\ LoadAll({"resume_team_task_prompt"}
                               \cup {AgentPrompt(as[i]) : i \in 1..k})
                /\ agents' = agents \cup {as[i] : i \in 1..k}
                /\ Bind({as[i] : i \in 1..k})
                /\ Construct({as[i] : i \in 1..k})
                /\ UNCHANGED << config, prior_config, team, image_agent,
                                streams >>
           ELSE /\ IF as = <<>> THEN UNCHANGED client_slot ELSE ReadClient
                /\ LoadAll({"resume_team_task_prompt"}
                               \cup {AgentPrompt(as[i]) : i \in 1..k})
                /\ agents' = agents \cup {as[i] : i \in 1..k}
                /\ Bind({as[i] : i \in 1..k})
                /\ Construct({as[i] : i \in 1..k}
                                 \cup IF as = <<>> THEN {} ELSE GroupParts)
                /\ team' = IF as = <<>> THEN team ELSE BuiltTeam
                /\ messages' = << task >>
                /\ IF Terminates(BuiltTeam, task)
                   THEN /\ improve_result' = TaskResult(<< task >>)
                        /\ stream_done' = TRUE
                   ELSE /\ improve_result' = NoResult
                        /\ stream_done' = FALSE
                /\ pc' = "team_stream"
                /\ UNCHANGED << handler, outcome, error, config, prior_config,
                                image_agent, next_speaker, image_messages,
                                result, inflight, inference_calls >>
    /\ UNCHANGED << outside, locals >>

(* ------------------------ the turn-taking group ------------------------ *)

\* The group hands the turn to its next speaker, which issues one
\* inference request.
TeamRequest ==
    /\ pc = "team_stream"
    /\ ~stream_done
    /\ inflight = {}
    /\ Len(messages) - 1 < Len(team.participants) * MaxRounds
    /\ inflight' = {team.participants[next_speaker]}
    /\ inference_calls' = inference_calls + 1
    /\ UNCHANGED << pc, handler, outcome, error, components, outside,
                    locals, messages, next_speaker, improve_result,
                    image_messages, result, stream_done >>

\* What the model behind an agent may answer: any of the sample contents.
AnyReply == [a \in {DraftAgent, EnhancementAgent, ConcisenessAgent} |-> Contents]

\* Agents that hand the resume text on unchanged, the conciseness agent
\* adding " FINAL" to it.
PassThrough ==
    [a \in {DraftAgent, EnhancementAgent, ConcisenessAgent} |->
        IF a = ConcisenessAgent THEN {resume_text \o <<" ">> \o FINAL}
                                ELSE {resume_text}]

\* The speaker's reply arrives: the stream yields it, the turn moves on,
\* and the termination condition is applied to it; when it fires the
\* stream yields the TaskResult and ends.
TeamReply(replies) ==
    /\ pc = "team_stream"
    /\ \E a \in inflight : \E c \in replies[a] :
        LET msg == [source |-> a, content |-> c]
            log == Append(messages, msg)
        IN  /\ messages' = log
            /\ next_speaker' = NextSpeaker(team, next_speaker)
            /\ inflight' = {}
            /\ IF Terminates(team, msg)
               THEN /\ improve_result' = TaskResult(log)
                    /\ stream_done' = TRUE
               ELSE /\ improve_result' = [kind |-> "Message", messages |-> <<>>]
                    /\ stream_done' = FALSE
    /\ UNCHANGED << pc, handler, outcome, error, components, outside,
                    locals, image_messages, result, inference_calls >>

\* A reply of an agent whose model may answer anything.
TeamRespond == TeamReply(AnyReply)

\* A reply of an agent that passes the resume text through.
TeamRespondPassThrough == TeamReply(PassThrough)

\* An inference request fails: the exception leaves the stream and the
\* agent stage and reaches run's `except Exception`.
InferenceFails ==
    /\ pc \in {"team_stream", "image_stream"}
    /\ inflight # {}
    /\ inflight' = {}
    /\ Caught("Exception", "inference failed")
    /\ UNCHANGED << components, outside, locals, messages, next_speaker,
                    improve_result, image_messages, result, stream_done,
                    inference_calls >>

(* ------------------------- results of a stream ------------------------- *)

\* Variant: the first message's content is returned.
FirstContent(r) ==
    IF r.kind = "TaskResult" /\ r.messages # <<>>
    THEN Some(r.messages[1].content)
    ELSE NoneStr

\* Variant: an empty string is returned when there is nothing to return.
LastContentOrEmpty(r) ==
    IF r.kind = "TaskResult" /\ r.messages # <<>>
    THEN Some(r.messages[Len(r.messages)].content)
    ELSE Some(<<>>)

\* `if result and result.messages: return result.messages[-1].content`,
\* else `return None` (improve_resume_text and generate_resume_image).
LastContent(r) ==
    IF r.kind = "TaskResult" /\ r.messages # <<>>
    THEN Some(r.messages[Len(r.messages)].content)
    ELSE NoneStr

\* improve_resume_text after the `async for`: return the last content.
ImproveTextReturn ==
    /\ pc = "team_stream"
    /\ stream_done
    /\ improved_text' = LastContent(improve_result)
    /\ pc' = "improve_resume"
    /\ UNCHANGED << handler, outcome, error, components, outside,
                    pdf_path, path_exists, resume_text, resume_images,
                    image_task, final_content, save_calls, output_path,
                    streams >>

\* Variant: the check of the text stage's result is left out.
TextStageNeverFails(t) == FALSE

\* improve_resume: `if not improved_text`.
TextStageFailed(t) == ~Truthy(t)

\* improve_resume after step 1: without improved text it returns None and
\* run reports that no improved resume was generated; otherwise step 2.
ImproveResume ==
    /\ pc = "improve_resume"
    /\ IF TextStageFailed(improved_text)
       THEN /\ final_content' = NoneStr
            /\ pc' = "exited"
            /\ outcome' = "no_improved_resume"
       ELSE /\ pc' = "generate_resume_image"
            /\ UNCHANGED << final_content, outcome >>
    /\ UNCHANGED << handler, error, components, outside, pdf_path,
                    path_exists, resume_text, resume_images, improved_text,
                    image_task, save_calls, output_path, streams >>

(* --------------------------- the image stage --------------------------- *)

\* Variant: the last page is handed over.
LastImage(images) == images[Len(images)]

\* run: the image handed to improve_resume is resume_images[0].
OriginalImage(images) == images[1]

\* f"New Resume Content:\n{improved_text}\n\nOriginal image ... attached"
ImageTaskText(text) == <<"N", ":", "\n">> \o text \o <<"\n", "\n", "O">>

\* generate_resume_image up to the start of the stream: get the image agent
\* (built on first use from the shared client and its prompt) and build
\* the multimodal task.
GenerateImageBegin ==
    /\ pc = "generate_resume_image"
    /\ LET as == ImageToBuild(image_agent)
           task == [text |-> ImageTaskText(improved_text.val),
                    image |-> OriginalImage(resume_images)]
       IN  IF Created(as) < Len(as)
           THEN /\ Caught("FileNotFoundError", "Prompt file not found")
                /\ ReadClient
                /\ UNCHANGED << config, prior_config, team_slots, image_task,
                                streams >>
           ELSE /\ IF as = <<>> THEN UNCHANGED client_slot ELSE ReadClient
                /\ LoadAll({AgentPrompt(as[i]) : i \in 1..Len(as)})
                /\ agents' = agents \cup {as[i] : i \in 1..Len(as)}
                /\ Bind({as[i] : i \in 1..Len(as)})
                /\ Construct({as[i] : i \in 1..Len(as)})
                /\ image_agent' = TRUE
                /\ image_task' = task
                /\ image_messages' =
                       << [source |-> "user", content |-> task.text] >>
                /\ result' = NoResult
                /\ stream_done' = FALSE
                /\ pc' = "image_stream"
                /\ UNCHANGED << handler, outcome, error, config, prior_config,
                                team, messages, next_speaker, improve_result,
                                inflight, inference_calls >>
    /\ UNCHANGED << outside, pdf_path, path_exists, resume_text,
                    resume_images, improved_text, final_content, save_calls,
                    output_path >>

\* The image agent issues its one inference request.
ImageRequest ==
    /\ pc = "image_stream"
    /\ ~stream_done
    /\ inflight = {}
    /\ result.kind = "None"
    /\ inflight' = {ImageAgent}
    /\ inference_calls' = inference_calls + 1
    /\ UNCHANGED << pc, handler, outcome, error, components, outside,
                    locals, messages, next_speaker, improve_result,
                    image_messages, result, stream_done >>

\* The reply arrives: the stream yields it, then the TaskResult, and ends.
ImageRespond ==
    /\ pc = "image_stream"
    /\ \E a \in inflight, c \in Contents :
        LET log == Append(image_messages, [source |-> a, content |-> c])
        IN  /\ image_messages' = log
            /\ result' = TaskResult(log)
    /\ inflight' = {}
    /\ stream_done' = TRUE
    /\ UNCHANGED << pc, handler, outcome, error, components, outside,
                    locals, messages, next_speaker, improve_result,
                    inference_calls >>

\* generate_resume_image after the `async for`: return the last content.
GenerateImageReturn ==
    /\ pc = "image_stream"
    /\ stream_done
    /\ final_content' = LastContent(result)
    /\ pc' = "report"
    /\ UNCHANGED << handler, outcome, error, components, outside,
                    pdf_path, path_exists, resume_text, resume_images,
                    improved_text, image_task, save_calls, output_path,
                    streams >>

\* run: `if final_resume_content`.
HasFinalContent(c) == Truthy(c)

\* improve_resume returns final_content; run goes on to the export when
\* there is content and reports that nothing was generated otherwise.
Report ==
    /\ pc = "report"
    /\ IF HasFinalContent(final_content)
       THEN /\ pc' = "save_improved_resume"
            /\ UNCHANGED outcome
       ELSE /\ pc' = "exited"
            /\ outcome' = "no_improved_resume"
    /\ UNCHANGED << handler, error, components, outside, locals,
                    streams >>

(* ------------------------------ the export ----------------------------- *)

\* FileManager.generate_output_filename:
\* str(input_path.parent / f"{base_name}_{suffix}.pdf").
GenerateOutputFilename(p, suffix) ==
    PathStr(Div(Parent(PathOf(p)), Stem(p) \o <<"_">> \o suffix \o DotPdf))

\* The suffix argument's default.
DefaultSuffix == <<"i", "m", "p", "r", "o", "v", "e", "d">>

\* FileManager.generate_output_filename with the default suffix.
OutputFilename(p) == GenerateOutputFilename(p, DefaultSuffix)

\* Variant: no try/except around the call; the outer clause takes it.
SaveFailureOuter == "Exception"

\* The except clause that takes a failure of save_improved_resume: the
\* try/except around the call inside run.
SaveFailureClause == "inner"

\* run: save_improved_resume(final_resume_content, pdf_path); pdfkit either
\* writes the file or fails, and the failure is taken by the inner except.
SaveImprovedResume ==
    /\ pc = "save_improved_resume"
    /\ save_calls' = save_calls + 1
    /\ pc' = "exited"
    /\ \E written \in BOOLEAN :
        IF written
        THEN /\ output_path' = OutputFilename(pdf_path)
             /\ outcome' = "saved"
             /\ UNCHANGED << handler, error >>
        ELSE /\ handler' = SaveFailureClause
             /\ outcome' = IF SaveFailureClause = "inner"
                           THEN "improved_but_not_saved"
                           ELSE "error_printed"
             /\ error' = "Failed to save improved resume"
             /\ UNCHANGED output_path
    /\ UNCHANGED << components, outside, pdf_path, path_exists,
                    resume_text, resume_images, improved_text, image_task,
                    final_content, streams >>

(* ----------------------- substituted streams --------------------------- *)

\* What a stream that stands in for the group or the agent (as the unit
\* tests' doubles do) may leave in the loop variable: nothing at all, or a
\* TaskResult with any message list, the empty one included.
RECURSIVE StubLogs(_)
StubLogs(n) ==
    IF n = 0 THEN {<<>>}
    ELSE LET shorter == StubLogs(n - 1)
         IN  shorter \cup
             { Append(l, [source |-> "stub", content |-> c]) :
                   l \in shorter, c \in Contents }

StubResults == {NoResult} \cup {TaskResult(l) : l \in StubLogs(MaxStreamLen)}

\* The text pipeline's stream is a stand-in and ends at once.
StubTeamStream ==
    /\ pc = "team_stream"
    /\ ~stream_done
    /\ inflight = {}
    /\ improve_result.kind = "None"
    /\ \E r \in StubResults :
        /\ improve_result' = r
        /\ messages' = r.messages
    /\ stream_done' = TRUE
    /\ UNCHANGED << pc, handler, outcome, error, components, outside,
                    locals, next_speaker, image_messages, result, inflight,
                    inference_calls >>

\* The image agent's stream is a stand-in and ends at once.
StubImageStream ==
    /\ pc = "image_stream"
    /\ ~stream_done
    /\ inflight = {}
    /\ result.kind = "None"
    /\ \E r \in StubResults :
        /\ result' = r
        /\ image_messages' = r.messages
    /\ stream_done' = TRUE
    /\ UNCHANGED << pc, handler, outcome, error, components, outside,
                    locals, messages, next_speaker, improve_result, inflight,
                    inference_calls >>

(* ------------------- ModelConfig and ModelManager, called -------------- *)

\* The fields of the ModelConfig dataclass.
Fields == {"api_key", "endpoint", "api_version", "deployment_name"}

\* Keyword arguments: a function from the names given to their values.
Kwargs(names, values) == UNION {[ks -> values] : ks \in SUBSET names}

\* ModelConfig(api_key=..., endpoint=..., [api_version=...],
\* [deployment_name=...]) as callers write it.
ConfigArgs ==
    { kw \in Kwargs(Fields, {"", "s"}) :
          {"api_key", "endpoint"} \subseteq DOMAIN kw }

\* update_config(**kwargs): a required field, a field with a default and
\* a name ModelConfig does not have, each given or not.
UpdateArgs == Kwargs({"api_key", "deployment_name", "timeout"}, {"", "x"})

\* The dataclass fills the fields left out with their defaults.
ModelConfigOf(kw) ==
    [api_key |-> kw["api_key"],
     endpoint |-> kw["endpoint"],
     api_version |->
         IF "api_version" \in DOMAIN kw THEN kw["api_version"]
                                       ELSE "2025-01-01",
     deployment_name |->
         IF "deployment_name" \in DOMAIN kw THEN kw["deployment_name"]
                                           ELSE "gpt-4o"]

\* Variant: __post_init__ checks nothing.
PostInitSkipped(c) == ""

\* ModelConfig.__post_init__: the message of the ValueError it raises, ""
\* when it raises none.
PostInitError(c) ==
    CASE MissingField(c) = "AZURE_OPENAI_API_KEY" ->
             "AZURE_OPENAI_API_KEY is required"
      [] MissingField(c) = "AZURE_OPENAI_ENDPOINT" ->
             "AZURE_OPENAI_ENDPOINT is required"
      [] MissingField(c) = "AZURE_OPENAI_API_VERSION" ->
             "AZURE_OPENAI_API_VERSION is required"
      [] MissingField(c) = "AZURE_OPENAI_DEPLOYMENT_NAME" ->
             "AZURE_OPENAI_DEPLOYMENT_NAME is required"
      [] OTHER -> ""

\* ModelConfig(**kw): a keyword the dataclass does not have, or a required
\* one left out, is a TypeError of the generated __init__; then
\* __post_init__ validates.
ConfigError(kw) ==
    IF ~(DOMAIN kw \subseteq Fields)
          \/ ~({"api_key", "endpoint"} \subseteq DOMAIN kw)
    THEN "TypeError"
    ELSE PostInitError(ModelConfigOf(kw))

\* ModelConfig(...) called by a user of the module.
NewModelConfig ==
    /\ config = NoConfig
    /\ \E kw \in ConfigArgs :
        mm_call' =
            [op |-> "ModelConfig", input |-> kw, cached |-> client # 0,
             raised |-> ConfigError(kw), ret |-> 0,
             made |-> IF ConfigError(kw) = "" THEN ModelConfigOf(kw)
                                              ELSE NoConfig]
    /\ UNCHANGED << beside_manager, config, prior_config, client_slot >>

\* Variant: the environment is not checked and no error is raised.
LoadConfigUnchecked(env) == ""

\* ModelManager._load_config_from_env: the message of the ValueError it
\* raises, "" when it raises none.
LoadConfigError(env) ==
    IF ~EnvComplete(env)
    THEN "Please set Azure Open AI Endpoint Details"
    ELSE PostInitError(ConfigFromEnv(env))

\* ModelManager(config) with a ModelConfig instance, or ModelManager() with
\* the configuration taken from the environment.  _client starts as None.
NewModelManager ==
    /\ config = NoConfig
    /\ \/ \E kw \in ConfigArgs :
            /\ ConfigError(kw) = ""
            /\ config' = ModelConfigOf(kw)
            /\ mm_call' =
                   [op |-> "ModelManager(config)", input |-> kw,
                    cached |-> FALSE,
                    raised |-> "", ret |-> 0, made |-> NoConfig]
       \/ \E env \in Envs :
            /\ config' = IF LoadConfigError(env) = "" THEN ConfigFromEnv(env)
                                                      ELSE config
            /\ mm_call' =
                   [op |-> "ModelManager()", input |-> env, cached |-> FALSE,
                    raised |-> LoadConfigError(env), ret |-> 0,
                    made |-> IF LoadConfigError(env) = ""
                             THEN ConfigFromEnv(env) ELSE NoConfig]
    /\ UNCHANGED << beside_manager, prior_config, client_slot >>

\* manager.client read by a user of the manager.
ClientGet ==
    /\ config # NoConfig
    /\ ClientRead(client) <= MaxClients
    /\ ReadClient
    /\ mm_call' =
           [op |-> "client", input |-> << >>, cached |-> client # 0,
            raised |-> "", ret |-> ClientRead(client), made |-> NoConfig]
    /\ UNCHANGED << beside_manager, config, prior_config >>

\* Variant: the fields not named fall back to the dataclass defaults.
MergeOntoDefaults(c, kw) ==
    [f \in Fields \cup DOMAIN kw |->
        IF f \in DOMAIN kw THEN kw[f]
        ELSE ModelConfigOf([api_key |-> c.api_key, endpoint |-> c.endpoint])[f]]

\* update_config: config_dict holds the four current fields, then
\* config_dict.update(kwargs).
Merge(c, kw) ==
    [f \in Fields \cup DOMAIN kw |-> IF f \in DOMAIN kw THEN kw[f] ELSE c[f]]

\* Variant: the cached client survives the update.
ClientKept(c) == c

\* update_config: self._client = None.
ClientReset(c) == 0

\* Variant: the cached client is dropped before the new configuration is
\* validated.
ClientDroppedOnFailure(c) == 0

\* update_config when ModelConfig(**config_dict) raises: the statement that
\* drops the client is not reached.
ClientOnFailure(c) == c

\* manager.update_config(**kwargs): the merged fields make a new
\* ModelConfig, which replaces the stored one; the cached client is
\* dropped.  A ModelConfig that fails to construct leaves both as they are.
UpdateConfig ==
    /\ config # NoConfig
    /\ \E kw \in UpdateArgs :
        LET merged == Merge(config, kw)
        IN  /\ IF ConfigError(merged) = ""
               THEN /\ config' = ModelConfigOf(merged)
                    /\ prior_config' = config
                    /\ client' = ClientReset(client)
               ELSE /\ client' = ClientOnFailure(client)
                    /\ UNCHANGED << config, prior_config >>
            /\ mm_call' =
                   [op |-> "update_config", input |-> kw,
                    cached |-> client # 0, raised |-> ConfigError(merged),
                    ret |-> 0,
                    made |-> IF ConfigError(merged) = ""
                             THEN ModelConfigOf(merged) ELSE NoConfig]
    /\ UNCHANGED << beside_manager, clients_built, client_args >>

\* A ModelManager and the ModelConfig class in the hands of their callers.
NextManager ==
    \/ NewModelConfig
    \/ NewModelManager
    \/ ClientGet
    \/ UpdateConfig

\* All prompt templates are in place; the manager does not read them.
InitManager == Init /\ prompt_files = PromptNames

SpecManager == InitManager /\ [][NextManager]_vars

(* ----------------------- ResumeTeam, called --------------------------- *)

\* ResumeImprover(): the model manager from the environment, the prompt
\* manager, the factory and a team with both slots empty.
NewResumeImprover ==
    /\ config = NoConfig
    /\ \E env \in Envs :
        /\ LoadConfigError(env) = ""
        /\ config' = ConfigFromEnv(env)
    /\ UNCHANGED << workflow, prior_config, client_slot, team_slots, outside >>

\* What a call on the ResumeTeam leaves alone.
beside_team ==
    << workflow, config, prior_config, prompt_files, prompt_text, mm_call,
       pm_call, pdf_call, files >>

\* Variant: the slot is filled as soon as one agent has been created.
TeamAfterPartialBuild(t, as, k) == IF as # <<>> /\ k > 0 THEN BuiltTeam ELSE t

\* self._team after create_team tried to create the agents `as` and
\* created k of them: assigned only when the group has been constructed.
TeamAfterBuild(t, as, k) == IF as # <<>> /\ k = Len(as) THEN BuiltTeam ELSE t

\* team.create_team() called by a user of the team: with the slot empty the
\* three agents are created in order (each reads the client, then loads its
\* prompt), then the termination condition and the group; a missing prompt
\* raises out of the call with the slot still empty.
CreateTeam ==
    /\ config # NoConfig
    /\ ToBuild(team) = <<>> \/ constructed[DraftAgent] < MaxBuilds
    /\ ClientRead(client) <= MaxClients
    /\ LET as == ToBuild(team)
           k == Created(as)
       IN  /\ IF as = <<>> THEN UNCHANGED client_slot ELSE ReadClient
           /\ LoadAll({AgentPrompt(as[i]) : i \in 1..k})
           /\ agents' = agents \cup {as[i] : i \in 1..k}
           /\ Bind({as[i] : i \in 1..k})
           /\ Construct({as[i] : i \in 1..k}
                            \cup IF as # <<>> /\ k = Len(as) THEN GroupParts
                                                             ELSE {})
           /\ team' = TeamAfterBuild(team, as, k)
           /\ tm_call' =
                  [op |-> "create_team", built |-> team.built,
                   raised |-> k < Len(as),
                   ret |-> IF k < Len(as) THEN 0
                           ELSE constructed'["RoundRobinGroupChat"]]
    /\ UNCHANGED << beside_team, image_agent >>

\* team.get_image_agent() called by a user of the team.
GetImageAgent ==
    /\ config # NoConfig
    /\ ImageToBuild(image_agent) = <<>> \/ constructed[ImageAgent] < MaxBuilds
    /\ ClientRead(client) <= MaxClients
    /\ LET as == ImageToBuild(image_agent)
           k == Created(as)
       IN  /\ IF as = <<>> THEN UNCHANGED client_slot ELSE ReadClient
           /\ LoadAll({AgentPrompt(as[i]) : i \in 1..k})
           /\ agents' = agents \cup {as[i] : i \in 1..k}
           /\ Bind({as[i] : i \in 1..k})
           /\ Construct({as[i] : i \in 1..k})
           /\ image_agent' = IF k = Len(as) THEN TRUE ELSE image_agent
           /\ tm_call' =
                  [op |-> "get_image_agent", built |-> image_agent,
                   raised |-> k < Len(as),
                   ret |-> IF k < Len(as) THEN 0
                           ELSE constructed'[ImageAgent]]
    /\ UNCHANGED << beside_team, team >>

\* A prompt template is deleted from the prompts directory.
PromptFileRemoved ==
    /\ \E n \in prompt_files \ {"resume_team_task_prompt"} :
        prompt_files' = prompt_files \ {n}
    /\ UNCHANGED << workflow, components, prompt_text, mm_call, pm_call,
                    tm_call, pdf_call, files >>

\* A deleted prompt template is put back as shipped.
PromptFileRestored ==
    /\ \E n \in PromptNames \ prompt_files :
        /\ prompt_files' = prompt_files \cup {n}
        /\ prompt_text' = [prompt_text EXCEPT ![n] = PromptFileText(n)]
    /\ UNCHANGED << workflow, components, mm_call, pm_call, tm_call,
                    pdf_call, files >>

\* A ResumeTeam in the hands of its callers, over a prompts directory that
\* may lose and regain templates.
NextTeam ==
    \/ NewResumeImprover
    \/ CreateTeam
    \/ GetImageAgent
    \/ PromptFileRemoved
    \/ PromptFileRestored

\* The task prompt is not the team's concern: it is in place.
InitTeam == Init /\ "resume_team_task_prompt" \in prompt_files

SpecTeam == InitTeam /\ [][NextTeam]_vars

(* ------------- ResumeTeam and its ModelManager, called ----------------- *)

\* A ResumeImprover whose team and whose model manager are both in the
\* hands of callers, all prompt templates in place.
NextOrchestrator ==
    \/ NewResumeImprover
    \/ CreateTeam
    \/ GetImageAgent
    \/ ClientGet
    \/ UpdateConfig

InitOrchestrator == Init /\ prompt_files = PromptNames

SpecOrchestrator == InitOrchestrator /\ [][NextOrchestrator]_vars

(* ---------------------- PromptManager, called -------------------------- *)

\* The names the model loads directly, and the texts a template file may
\* be given: a line, a line with leading blank, a blank file.
DirectNames == {"resume_draft_agent_prompt", "resume_image_agent_prompt"}
FileTexts == { <<"p", "\n">>, <<" ", "q">>, <<"\n">> }

\* prompt_path = self.prompts_dir / f"{filename}.txt", in path components.
PromptPath(name) == << "prompts", "/", name, ".txt" >>

\* Variant: the message does not tell the path.
NotFoundMessageBare(name) == << "Prompt file not found" >>

\* FileNotFoundError(f"Prompt file not found: {prompt_path}")
NotFoundMessage(name) == << "Prompt file not found: " >> \o PromptPath(name)

\* prompt_manager.load_prompt(name) called by a user of the loader.
LoadPrompt ==
    /\ \E n \in DirectNames :
        IF Available(n)
        THEN /\ LoadAll({n})
             /\ pm_call' =
                    [op |-> "load_prompt", name |-> n,
                     hit |-> n \in prompt_cache,
                     present |-> n \in prompt_files,
                     raised |-> << >>, ret |-> Some(Loaded(n))]
        ELSE /\ pm_call' =
                    [op |-> "load_prompt", name |-> n, hit |-> FALSE,
                     present |-> FALSE, raised |-> NotFoundMessage(n),
                     ret |-> NoneStr]
             /\ UNCHANGED prompt_slots
    /\ UNCHANGED << workflow, config, prior_config, client_slot, agents, team,
                    image_agent, constructed, agent_client, prompt_files,
                    prompt_text, mm_call, tm_call, pdf_call, files >>

\* A prompt template is written: created, or overwritten with other text.
PromptFileWritten ==
    /\ \E n \in DirectNames, t \in FileTexts :
        /\ prompt_files' = prompt_files \cup {n}
        /\ prompt_text' = [prompt_text EXCEPT ![n] = t]
    /\ UNCHANGED << workflow, components, mm_call, pm_call, tm_call,
                    pdf_call, files >>

\* One PromptManager in the hands of its callers, over a prompts directory
\* whose files are written and deleted.
NextPrompts ==
    \/ LoadPrompt
    \/ PromptFileWritten
    \/ PromptFileRemoved

\* Only the templates the model loads directly may be in place.
InitPrompts == Init /\ prompt_files \subseteq DirectNames

SpecPrompts == InitPrompts /\ [][NextPrompts]_vars

(* ----------------------- PDFProcessor, called -------------------------- *)

\* What page.extract_text() gives for a page: nothing, words, blanks.
PageTexts == { << >>, <<"c", "v">>, <<" ">> }

\* The pages PyPDF2 finds in a readable PDF, as their texts.
PageLists == UNION {[1..n -> PageTexts] : n \in 0..MaxPages}

\* The dpi argument of convert_to_images: 0 stands for None.
DpiArgs == {0, 72, 150}

\* PDFProcessor(default_dpi=300).
DefaultDpi == 300

\* for page in pdf_reader.pages: text_content += page.extract_text() + "\n"
RECURSIVE JoinPages(_)
JoinPages(pages) ==
    IF pages = << >> THEN << >>
    ELSE pages[1] \o <<"\n">> \o JoinPages(Tail(pages))

\* FileNotFoundError(f"PDF file not found: {pdf_path}")
PdfNotFound(p) == << "PDF file not found: " >> \o p

\* Variant: an exception raised while reading the PDF leaves the call.
ExtractorErrorStrict(p, exists, failed) ==
    IF ~exists THEN PdfNotFound(p)
    ELSE IF failed THEN << "PdfReadError" >>
    ELSE << >>

\* The exception that leaves extract_text / convert_to_images: the one of
\* the existence check; `except Exception` keeps every other one in.
ExtractorError(p, exists, failed) ==
    IF ~exists THEN PdfNotFound(p) ELSE << >>

\* pdf_processor.extract_text(path): a missing file raises; otherwise the
\* page texts are joined, or the text is "" when reading raised, and the
\* result is stripped.
ExtractText ==
    /\ \E p \in Paths, exists \in BOOLEAN, failed \in BOOLEAN,
          pages \in PageLists :
        /\ failed => exists /\ pages = << >>
        /\ ~exists => pages = << >>
        /\ pdf_call' =
               [op |-> "extract_text", path |-> p, exists |-> exists,
                failed |-> failed, dpi |-> 0,
                raised |-> ExtractorError(p, exists, failed),
                text |-> IF ExtractorError(p, exists, failed) # << >>
                         THEN << >>
                         ELSE IF failed THEN Strip(<< >>)
                         ELSE Strip(JoinPages(pages)),
                images |-> << >>]
    /\ UNCHANGED << workflow, components, prompt_files, prompt_text, mm_call,
                    pm_call, tm_call, files >>

\* pdf_processor.convert_to_images(path, dpi): a missing file raises;
\* otherwise one image per page, or [] when the conversion (or the search
\* for poppler before it) raised.
ConvertToImages ==
    /\ \E p \in Paths, exists \in BOOLEAN, failed \in BOOLEAN,
          n \in 0..MaxPages, dpi \in DpiArgs :
        /\ failed => exists /\ n = 0
        /\ ~exists => n = 0
        /\ pdf_call' =
               [op |-> "convert_to_images", path |-> p, exists |-> exists,
                failed |-> failed,
                dpi |-> IF ~exists THEN dpi
                        ELSE IF dpi = 0 THEN DefaultDpi ELSE dpi,
                raised |-> ExtractorError(p, exists, failed),
                text |-> << >>,
                images |-> IF ExtractorError(p, exists, failed) # << >>
                              \/ failed
                           THEN << >> ELSE Pages(n)]
    /\ UNCHANGED << workflow, components, prompt_files, prompt_text, mm_call,
                    pm_call, tm_call, files >>

\* One PDFProcessor in the hands of its callers.
NextPdf ==
    \/ ExtractText
    \/ ConvertToImages

SpecPdf == Init /\ [][NextPdf]_vars

(* ------------------------ file helpers, called ------------------------- *)

\* Paths given to the helpers: a plain name, a name under directories, a
\* name without suffix under a dotted directory, an upper-case suffix under
\* the root, and a dot-file whose whole name is ".pdf".
FilePaths ==
    { <<"r", ".", "p", "d", "f">>,
      <<"a", "/", "b", "/", "r", ".", "p", "d", "f">>,
      <<"a", ".", "b", "/", "r">>,
      <<"/", "r", ".", "P", "D", "F">>,
      <<".", "p", "d", "f">> }

\* The ones of them that may come to exist.
CreatedFiles ==
    { <<"a", ".", "b", "/", "r">>,
      <<"/", "r", ".", "P", "D", "F">>,
      <<".", "p", "d", "f">> }

\* Suffix arguments: the default and another; the base name (the
\* default) and the output directory of save_images.
Suffixes == { DefaultSuffix, <<"v", "2">> }
BaseNames == { <<"p", "a", "g", "e">> }
OutDir == <<"o", "u", "t">>

\* os.path.exists(p) / Path(p).exists().
Exists(p) == PathStr(PathOf(p)) \in disk

\* str(i) for a natural number.
Digit(d) == << <<"0", "1", "2", "3", "4", "5", "6", "7", "8", "9">>[d + 1] >>

RECURSIVE Decimal(_)
Decimal(n) ==
    IF n < 10 THEN Digit(n) ELSE Decimal(n \div 10) \o Digit(n % 10)

\* Variant: the index is not padded.
Unpadded(i) == Decimal(i)

\* f"{i:02d}": at least two digits, zero-padded.
Pad2(i) == IF i < 10 THEN <<"0">> \o Decimal(i) ELSE Decimal(i)

\* output_path / f"{base_filename}_{i:02d}.png", as a string.
SavedPath(dir, base, i) ==
    PathStr(Div(PathOf(dir),
                base \o <<"_">> \o Pad2(i) \o <<".", "p", "n", "g">>))

\* A file comes to exist under one of the sample names.
FileCreated ==
    /\ \E p \in CreatedFiles \ disk : disk' = disk \cup {p}
    /\ UNCHANGED << workflow, components, prompt_files, prompt_text, mm_call,
                    pm_call, tm_call, pdf_call, fm_call >>

\* FileManager.generate_output_filename(input_path, suffix) called.
GenerateOutputFilenameCall ==
    /\ \E p \in FilePaths, suffix \in Suffixes :
        fm_call' =
            [NoFileCall EXCEPT !.op = "generate_output_filename",
                               !.path = p, !.arg = suffix,
                               !.exists = Exists(p),
                               !.ret = GenerateOutputFilename(p, suffix)]
    /\ UNCHANGED << workflow, components, prompt_files, prompt_text, mm_call,
                    pm_call, tm_call, pdf_call, disk >>

\* Path.mkdir(parents=True, exist_ok=True): the directory and every missing
\* ancestor.
MadeDirs(dir) ==
    LET d == PathOf(dir)
    IN  { PathStr([anchor |-> d.anchor, parts |-> SubSeq(d.parts, 1, k)]) :
            k \in 1..Len(d.parts) }

\* ImageProcessor.save_images(images, output_dir, base_filename) called with
\* n images, told apart by a number, in rising or falling order.
SaveImages ==
    /\ \E n \in 0..MaxSaved, rising \in BOOLEAN, base \in BaseNames :
        LET images == [i \in 1..n |-> IF rising THEN i ELSE n + 1 - i]
            writes == [i \in 1..n |->
                          [path |-> SavedPath(OutDir, base, i),
                           image |-> images[i]]]
        IN  /\ disk' = disk \cup MadeDirs(OutDir)
                            \cup {writes[i].path : i \in 1..n}
            /\ fm_call' =
                   [NoFileCall EXCEPT !.op = "save_images",
                                      !.path = OutDir, !.arg = base,
                                      !.exists = Exists(OutDir),
                                      !.images = images, !.writes = writes,
                                      !.paths = [i \in 1..n |-> writes[i].path]]
    /\ UNCHANGED << workflow, components, prompt_files, prompt_text, mm_call,
                    pm_call, tm_call, pdf_call >>

\* ResumeImproverCLI.validate_pdf_file: the exception class raised, "" if
\* none.
CliError(p, exists) ==
    IF ~exists THEN "FileNotFoundError"
    ELSE IF ~CliAccepts(p) THEN "ValueError"
    ELSE ""

\* FileManager.validate_pdf_path: the exception class raised, "" if none.
ProcessorError(p, exists) ==
    IF ~exists THEN "FileNotFoundError"
    ELSE IF ~ProcessorAccepts(p) THEN "ValueError"
    ELSE ""

\* cli.validate_pdf_file(pdf_path) called.
ValidatePdfFileCall ==
    /\ \E p \in FilePaths :
        LET e == CliError(p, Exists(p))
        IN  fm_call' =
                [NoFileCall EXCEPT
                    !.op = "validate_pdf_file", !.path = p,
                    !.exists = Exists(p), !.raised = e,
                    !.message =
                        IF e = "FileNotFoundError"
                        THEN <<"File '">> \o p \o <<"' not found">>
                        ELSE IF e = "ValueError"
                        THEN <<"Please provide a PDF file">>
                        ELSE << >>,
                    !.ret = IF e = "" THEN p ELSE << >>]
    /\ UNCHANGED << workflow, components, prompt_files, prompt_text, mm_call,
                    pm_call, tm_call, pdf_call, disk >>

\* file_manager.validate_pdf_path(pdf_path) called.
ValidatePdfPathCall ==
    /\ \E p \in FilePaths :
        LET e == ProcessorError(p, Exists(p))
            path == PathStr(PathOf(p))
        IN  fm_call' =
                [NoFileCall EXCEPT
                    !.op = "validate_pdf_path", !.path = p,
                    !.exists = Exists(p), !.raised = e,
                    !.message =
                        IF e = "FileNotFoundError"
                        THEN <<"File not found: ">> \o path
                        ELSE IF e = "ValueError"
                        THEN <<"File is not a PDF: ">> \o path
                        ELSE << >>,
                    !.ret = IF e = "" THEN path ELSE << >>]
    /\ UNCHANGED << workflow, components, prompt_files, prompt_text, mm_call,
                    pm_call, tm_call, pdf_call, disk >>

\* The file helpers in the hands of their callers.
NextFiles ==
    \/ FileCreated
    \/ GenerateOutputFilenameCall
    \/ SaveImages
    \/ ValidatePdfFileCall
    \/ ValidatePdfPathCall

\* The helpers read no prompt template: all are in place.
InitFiles == Init /\ prompt_files = PromptNames

SpecFiles == InitFiles /\ [][NextFiles]_vars

(* ------------------ builds and loads that may fail --------------------- *)

\* The team and the prompt loader of one ResumeImprover in the hands of
\* their callers, over a prompts directory that loses and regains files.
NextBuild ==
    \/ NewResumeImprover
    \/ CreateTeam
    \/ GetImageAgent
    \/ LoadPrompt
    \/ PromptFileRemoved
    \/ PromptFileRestored

SpecBuild == InitTeam /\ [][NextBuild]_vars

(* --------------------------- specifications ---------------------------- *)

\* The workflow with the group and the agent that create_team and
\* get_image_agent build.
Next ==
    \/ CLIInit
    \/ GetPdfPath
    \/ ValidatePdfFile
    \/ ProcessPdfFile
    \/ ImproveTextBegin
    \/ TeamRequest
    \/ TeamRespond
    \/ InferenceFails
    \/ ImproveTextReturn
    \/ ImproveResume
    \/ GenerateImageBegin
    \/ ImageRequest
    \/ ImageRespond
    \/ GenerateImageReturn
    \/ Report
    \/ SaveImprovedResume

Spec == Init /\ [][Next]_vars

\* The workflow with text agents that pass the resume text through.
NextPassThrough ==
    \/ CLIInit
    \/ GetPdfPath
    \/ ValidatePdfFile
    \/ ProcessPdfFile
    \/ ImproveTextBegin
    \/ TeamRequest
    \/ TeamRespondPassThrough
    \/ InferenceFails
    \/ ImproveTextReturn
    \/ ImproveResume
    \/ GenerateImageBegin
    \/ ImageRequest
    \/ ImageRespond
    \/ GenerateImageReturn
    \/ Report
    \/ SaveImprovedResume

SpecPassThrough == Init /\ [][NextPassThrough]_vars

\* The same workflow where either stream may also be a stand-in.
NextStream ==
    \/ Next
    \/ StubTeamStream
    \/ StubImageStream

SpecStream == Init /\ [][NextStream]_vars

(* ----------------------------- observations ---------------------------- *)

\* The text pipeline's stream has ended with its TaskResult.
TextRunEnded == improve_result.kind = "TaskResult"

\* improve_resume_text has returned to improve_resume.
TextReturned ==
    \/ pc \in {"improve_resume", "generate_resume_image", "image_stream",
               "report", "save_improved_resume"}
    \/ /\ pc = "exited"
       /\ outcome \in {"saved", "improved_but_not_saved", "no_improved_resume"}

\* generate_resume_image has returned, or was never called by a run that
\* has reported its outcome.
ImageReturned ==
    \/ pc \in {"report", "save_improved_resume"}
    \/ /\ pc = "exited"
       /\ outcome \in {"saved", "improved_but_not_saved", "no_improved_resume"}

\* The image stage has been started.
ImageStageStarted ==
    \/ image_task # NoTask
    \/ image_messages # <<>>
    \/ ImageAgent \in inflight
    \/ result.kind # "None"

\* Some message of the text pipeline's run satisfies P.
MarkerFrom(sources) ==
    \E i \in 1..Len(messages) :
        /\ messages[i].source \in sources
        /\ Contains(messages[i].content, FINAL)

(* ------------------------------- claims -------------------------------- *)

C2_FixedRotation ==
    LET order == << "ResumeDraftAgent", "ResumeEnhancementAgent",
                    "ResumeConcisenessAgent" >>
        turn(k) == order[((k - 1) % 3) + 1]
    IN  /\ messages # <<>> => messages[1].source = "user"
        /\ \A i \in 2..Len(messages) : messages[i].source = turn(i - 1)
        /\ pc = "team_stream" =>
               /\ \A a \in inflight : a = turn(Len(messages))
               /\ team.participants[next_speaker] = turn(Len(messages))

\* C2 witness: a run that ended after two full rounds.
C2_Witness ==
    /\ TextRunEnded
    /\ Len(messages) = 7

\* C3: once improve_resume_text (generate_resume_image) has returned from
\* a run that emitted at least one message, the value it returned is the
\* content of the last message of that run.
C3_ReturnsLastMessage ==
    /\ (TextReturned /\ messages # <<>>)
           => improved_text = Some(messages[Len(messages)].content)
    /\ (ImageReturned /\ image_messages # <<>>)
           => final_content = Some(image_messages[Len(image_messages)].content)

\* C3 witness: both stages have returned and each value differs from the
\* first message of its run.
C3_Witness ==
    /\ pc = "report"
    /\ Len(messages) > 4
    /\ improved_text.val # messages[1].content
    /\ improved_text.val # messages[Len(messages) - 1].content
    /\ Len(image_messages) = 2
    /\ final_content.val # image_messages[1].content

\* C4: the run of the text pipeline has ended exactly when the conciseness
\* agent has emitted a message containing "FINAL"; improve_resume_text has
\* returned only if the run has ended; and whatever the number of turns
\* taken, while the run has not ended and no request is outstanding the
\* next turn is given (no round count stops the loop; RoundsExplored is
\* only the depth to which the model follows it).  Without that marker the
\* only way out of the loop is an exception of an inference request, which
\* aborts improve_resume_text without a return value.
RoundsExplored == Len(messages) - 1 >= Len(team.participants) * MaxRounds

C5_NoMessagesGivesNone ==
    /\ ( /\ TextReturned
         /\ (improve_result.kind = "None" \/ improve_result.messages = <<>>) )
           => (improved_text = NoneStr /\ handler = "none" /\ error = "")
    /\ ( /\ ImageReturned
         /\ (result.kind = "None" \/ result.messages = <<>>) )
           => (final_content = NoneStr /\ handler = "none" /\ error = "")

\* C5 witness: the image agent's stream ended with a result whose message
\* list is empty, after a text pipeline that did produce text.
C5_Witness ==
    /\ pc = "report"
    /\ result = TaskResult(<<>>)
    /\ final_content = NoneStr

\* C6: when the text pipeline returned no result, the image stage is never
\* started, improve_resume returns None, save_improved_resume is never
\* called, and run ends reporting that no improved resume was generated.
C6_NoTextHaltsWorkflow ==
    (TextReturned /\ improved_text = NoneStr) =>
        /\ ~ImageStageStarted
        /\ ~image_agent
        /\ final_content = NoneStr
        /\ save_calls = 0
        /\ output_path = <<>>
        /\ pc \in {"improve_resume", "exited"}
        /\ pc = "exited" => outcome = "no_improved_resume"

\* C6 witness: run has ended after a text pipeline without a result.
C6_Witness ==
    /\ pc = "exited"
    /\ outcome = "no_improved_resume"
    /\ improve_result.kind = "None"
    /\ improved_text = NoneStr

\* C7: no model client, agent or team is created and no inference request
\* is issued unless extraction gave non-blank text and at least one image;
\* when process_pdf_file raised "No text could be extracted" or "No images
\* could be extracted", run ended in its ValueError clause with none of
\* them created.
NothingCreated ==
    /\ client = 0
    /\ agents = {}
    /\ ~team.built
    /\ ~image_agent
    /\ prompt_cache = {}
    /\ inference_calls = 0
    /\ messages = <<>>

C7_EmptyExtractionHaltsFirst ==
    /\ ~NothingCreated =>
           (Strip(resume_text) # <<>> /\ Len(resume_images) >= 1)
    /\ error \in {"No text could be extracted from the PDF",
                  "No images could be extracted from the PDF"} =>
           (pc = "exited" /\ handler = "ValueError" /\ NothingCreated)
    /\ pc \in {"main", "get_pdf_path", "validate_pdf_file", "process_pdf_file"}
           => NothingCreated

\* C7 witness: run has ended on an empty image list.
C7_Witness ==
    /\ pc = "exited"
    /\ error = "No images could be extracted from the PDF"

\* C8: at most one inference request is outstanding; a request of a text
\* agent is outstanding only during the text pipeline's run, before the
\* image stage; the image stage starts only after the text pipeline's run
\* has ended and returned non-empty text, and its task holds that text and
\* the first page image; the export is reached only after the image
\* agent's run has ended and returned non-empty content, with no request
\* outstanding.
C8_OneStageAtATime ==
    /\ Cardinality(inflight) <= 1
    /\ (inflight \cap {"ResumeDraftAgent", "ResumeEnhancementAgent",
                      "ResumeConcisenessAgent"}) # {} =>
           (pc = "team_stream" /\ ~TextRunEnded /\ ~ImageStageStarted)
    /\ messages # <<>> =>
           (Strip(resume_text) # <<>> /\ resume_images # <<>>)
    /\ ImageStageStarted =>
           /\ TextRunEnded
           /\ Truthy(improved_text)
           /\ improved_text = Some(messages[Len(messages)].content)
           /\ image_task.text = ImageTaskText(improved_text.val)
           /\ image_task.image = resume_images[1]
           /\ image_task.image = 1
    /\ (pc = "save_improved_resume" \/ save_calls > 0) =>
           /\ result.kind = "TaskResult"
           /\ Truthy(final_content)
           /\ inflight = {}
    /\ save_calls <= 1

\* C8 witness: the export is reached for a resume of two pages.
C8_Witness ==
    /\ pc = "save_improved_resume"
    /\ Len(resume_images) = 2
    /\ inference_calls = 4

C10_NoExceptionLeavesMain ==
    /\ handler # "uncaught"
    /\ outcome # "traceback"

(* ----------------- claims: ModelConfig and ModelManager ---------------- *)

\* C11: reads of ModelManager.client with no update_config in between
\* return the identical cached handle.  A read that finds the slot filled
\* returns that handle and constructs nothing; a read that finds it empty
\* constructs exactly one client, from the four fields of the current
\* configuration; and only update_config takes a cached handle away.
C11_ClientCachedUntilUpdate ==
    [][ /\ mm_call'.op = "client" =>
            /\ mm_call'.ret = client'
            /\ client # 0 =>
                 /\ mm_call'.ret = client
                 /\ clients_built' = clients_built
                 /\ client_args' = client_args
            /\ client = 0 =>
                 /\ clients_built' = clients_built + 1
                 /\ client_args' =
                        [azure_deployment |-> config.deployment_name,
                         model |-> config.deployment_name,
                         api_key |-> config.api_key,
                         azure_endpoint |-> config.endpoint,
                         api_version |-> config.api_version]
        /\ (client # 0 /\ client' # client) => mm_call'.op = "update_config"
      ]_vars

\* A second read found the first client in the slot and returned it.
C11_Witness ==
    /\ mm_call.op = "client"
    /\ mm_call.cached
    /\ mm_call.ret = 1
    /\ clients_built = 1

\* C12: a successful update_config leaves the cache slot empty, and the
\* read that follows it constructs a new client from the merged
\* configuration: its handle is none of those built before the update.
C12_UpdateDropsCachedClient ==
    [][ /\ (mm_call'.op = "update_config" /\ mm_call'.raised = "")
             => client' = 0
        /\ ( /\ mm_call.op = "update_config"
             /\ mm_call.raised = ""
             /\ mm_call'.op = "client" ) =>
               /\ mm_call'.ret \notin 0..clients_built
               /\ clients_built' = clients_built + 1
               /\ client_args' =
                      [azure_deployment |-> config.deployment_name,
                       model |-> config.deployment_name,
                       api_key |-> config.api_key,
                       azure_endpoint |-> config.endpoint,
                       api_version |-> config.api_version]
               /\ config = mm_call.made
      ]_vars

\* A client was cached, update_config(api_key="x") replaced the
\* configuration, and the next read built the second client with that key.
C12_Witness ==
    /\ mm_call.op = "client"
    /\ ~mm_call.cached
    /\ mm_call.ret = 2
    /\ prior_config # NoConfig
    /\ client_args.api_key = "x"

\* C13: a successful update_config changes exactly the fields it is given:
\* every field of the replacement configuration is the keyword's value if
\* the field was named and the prior value otherwise, and the instance that
\* was stored before still has its own fields afterwards.
C13_UpdateChangesNamedFieldsOnly ==
    [][ (mm_call'.op = "update_config" /\ mm_call'.raised = "") =>
            /\ \A f \in {"api_key", "endpoint", "api_version",
                         "deployment_name"} :
                   config'[f] = IF f \in DOMAIN mm_call'.input
                                THEN mm_call'.input[f]
                                ELSE config[f]
            /\ prior_config' = config
      ]_vars

\* update_config(api_key="x") on a configuration built with an explicit
\* api_version: the key changed, the version stayed, the old instance
\* still has the old key.
C13_Witness ==
    /\ mm_call.op = "update_config"
    /\ mm_call.raised = ""
    /\ DOMAIN mm_call.input = {"api_key"}
    /\ config.api_key = "x"
    /\ config.api_version = "s"
    /\ prior_config.api_key = "s"

\* C14: ModelConfig(...) with an empty required field raises, and the error
\* names the first empty field in the order api_key, endpoint, api_version,
\* deployment_name; it succeeds only when all four are non-empty, with
\* api_version defaulting to "2025-01-01" and deployment_name to "gpt-4o".
C14_ModelConfigValidation ==
    mm_call.op = "ModelConfig" =>
        LET kw == mm_call.input
            ver == IF "api_version" \in DOMAIN kw THEN kw["api_version"]
                                                 ELSE "2025-01-01"
            dep == IF "deployment_name" \in DOMAIN kw
                   THEN kw["deployment_name"] ELSE "gpt-4o"
        IN  /\ mm_call.raised =
                   IF kw["api_key"] = ""
                   THEN "AZURE_OPENAI_API_KEY is required"
                   ELSE IF kw["endpoint"] = ""
                   THEN "AZURE_OPENAI_ENDPOINT is required"
                   ELSE IF ver = ""
                   THEN "AZURE_OPENAI_API_VERSION is required"
                   ELSE IF dep = ""
                   THEN "AZURE_OPENAI_DEPLOYMENT_NAME is required"
                   ELSE ""
            /\ mm_call.raised = "" =>
                   mm_call.made =
                       [api_key |-> kw["api_key"], endpoint |-> kw["endpoint"],
                        api_version |-> ver, deployment_name |-> dep]
            /\ mm_call.raised # "" => mm_call.made = NoConfig

\* Both the key and the endpoint were empty: the error names the key.
C14_Witness ==
    /\ mm_call.op = "ModelConfig"
    /\ mm_call.input["api_key"] = ""
    /\ mm_call.input["endpoint"] = ""
    /\ mm_call.raised = "AZURE_OPENAI_API_KEY is required"

\* C15: ModelManager() in an environment whose key or endpoint is missing
\* or empty fails, having constructed no client and issued no request; and
\* no construction of a manager builds a client: clients are only built by
\* reads of `client`.
C15_NoClientBeforeFirstRead ==
    /\ [](( /\ mm_call.op = "ModelManager()"
            /\ (mm_call.input["api_key"] = "" \/ mm_call.input["endpoint"] = "") )
             => /\ mm_call.raised # ""
                /\ config = NoConfig
                /\ client = 0
                /\ clients_built = 0
                /\ inference_calls = 0)
    /\ []( mm_call.op \in {"ModelManager()", "ModelManager(config)"}
             => client = 0 /\ clients_built = 0 )
    /\ [][ clients_built' # clients_built => mm_call'.op = "client" ]_vars

\* The key is set but the endpoint is not: the construction failed.
C15_Witness ==
    /\ mm_call.op = "ModelManager()"
    /\ mm_call.input["api_key"] = "k"
    /\ mm_call.input["endpoint"] = ""
    /\ mm_call.raised = "Please set Azure Open AI Endpoint Details"

(* --------------------------- claims: ResumeTeam ------------------------ *)

\* C16 as stated: whenever a create_team call returns, the three text
\* agents, the termination condition and the group have each been
\* constructed exactly once, and the call returned the first group.
C16_EachConstructedExactlyOnce ==
    (tm_call.op = "create_team" /\ ~tm_call.raised) =>
        /\ \A k \in {"ResumeDraftAgent", "ResumeEnhancementAgent",
                     "ResumeConcisenessAgent", "TextMentionTermination",
                     "RoundRobinGroupChat"} : constructed[k] = 1
        /\ tm_call.ret = 1

\* C16, amended: the text pipeline goes UNBUILT -> BUILT at most once.  The
\* termination condition and the group are constructed at most once, by the
\* first create_team call that does not fail, which constructs the three
\* text agents with them; that call and every later one return that same
\* group and, once BUILT, nothing of the pipeline is constructed again.  A
\* call that fails leaves the pipeline UNBUILT.
C16_BuiltOnceByFirstSuccess ==
    /\ []( /\ constructed["RoundRobinGroupChat"] <= 1
           /\ constructed["TextMentionTermination"] <= 1
           /\ team.built <=> constructed["RoundRobinGroupChat"] = 1
           /\ team.built <=> constructed["TextMentionTermination"] = 1
           /\ (tm_call.op = "create_team" /\ ~tm_call.raised) =>
                  team.built /\ tm_call.ret = 1
           /\ (tm_call.op = "create_team" /\ tm_call.raised) => ~team.built )
    /\ [][ /\ team.built =>
                /\ team' = team
                /\ \A k \in {"ResumeDraftAgent", "ResumeEnhancementAgent",
                             "ResumeConcisenessAgent",
                             "TextMentionTermination",
                             "RoundRobinGroupChat"} :
                       constructed'[k] = constructed[k]
           /\ (~team.built /\ team'.built) =>
                /\ tm_call'.op = "create_team"
                /\ team'.participants =
                       << "ResumeDraftAgent", "ResumeEnhancementAgent",
                          "ResumeConcisenessAgent" >>
                /\ \A k \in {"ResumeDraftAgent", "ResumeEnhancementAgent",
                             "ResumeConcisenessAgent",
                             "TextMentionTermination",
                             "RoundRobinGroupChat"} :
                       constructed'[k] = constructed[k] + 1
         ]_vars

\* A call failed after the draft agent was made, a later call built the
\* pipeline (making a second draft agent), and a call after that found it
\* BUILT and returned the one group.
C16_Witness ==
    /\ tm_call.op = "create_team"
    /\ tm_call.built
    /\ tm_call.ret = 1
    /\ constructed["ResumeDraftAgent"] = 2
    /\ constructed["RoundRobinGroupChat"] = 1

\* C17: the image agent has its own single-shot cache.  It is constructed
\* at most once, by the first get_image_agent call that returns, and every
\* returning call yields that agent; only get_image_agent changes the image
\* slot, and only create_team changes the text pipeline.
C17_ImageAgentCacheIndependent ==
    /\ []( /\ constructed["ResumeImageAgent"] <= 1
           /\ image_agent <=> constructed["ResumeImageAgent"] = 1
           /\ (tm_call.op = "get_image_agent" /\ ~tm_call.raised) =>
                  image_agent /\ tm_call.ret = 1 )
    /\ [][ /\ image_agent => image_agent'
           /\ ( \/ image_agent' # image_agent
                \/ constructed'["ResumeImageAgent"]
                       # constructed["ResumeImageAgent"] )
                => tm_call'.op = "get_image_agent"
           /\ ( \/ team' # team
                \/ \E k \in {"ResumeDraftAgent", "ResumeEnhancementAgent",
                             "ResumeConcisenessAgent",
                             "TextMentionTermination",
                             "RoundRobinGroupChat"} :
                       constructed'[k] # constructed[k] )
                => tm_call'.op = "create_team"
         ]_vars

\* A second get_image_agent call returned the cached agent while the text
\* pipeline was still unbuilt.
C17_Witness ==
    /\ tm_call.op = "get_image_agent"
    /\ tm_call.built
    /\ tm_call.ret = 1
    /\ ~team.built
    /\ constructed["RoundRobinGroupChat"] = 0

(* -------------------------- claims: PromptManager ---------------------- *)

\* C18: load_prompt is idempotent per loader.  A name once loaded stays
\* cached with the text of its first load whatever happens to the file,
\* its file is not read again (at most one read per name), and every
\* successful load returns the cached text.
C18_LoadPromptIdempotent ==
    /\ []( /\ \A n \in PromptNames :
                /\ file_reads[n] <= 1
                /\ n \in prompt_cache <=> file_reads[n] = 1
           /\ (pm_call.op = "load_prompt" /\ pm_call.raised = << >>) =>
                /\ pm_call.name \in prompt_cache
                /\ pm_call.ret =
                       [some |-> TRUE, val |-> cached_text[pm_call.name]] )
    /\ [][ \A n \in PromptNames :
              n \in prompt_cache =>
                /\ n \in prompt_cache'
                /\ cached_text'[n] = cached_text[n]
                /\ file_reads'[n] = file_reads[n]
         ]_vars

\* The draft prompt was loaded as "p", its file was then overwritten and
\* deleted, and a later load still returned "p" from the cache.
C18_Witness ==
    /\ pm_call.op = "load_prompt"
    /\ pm_call.name = "resume_draft_agent_prompt"
    /\ pm_call.hit
    /\ pm_call.ret = [some |-> TRUE, val |-> <<"p">>]
    /\ "resume_draft_agent_prompt" \notin prompt_files
    /\ prompt_text["resume_draft_agent_prompt"] = <<" ", "q">>
    /\ file_reads["resume_draft_agent_prompt"] = 1

\* C19: a load_prompt call that looks up a file that is absent raises a
\* not-found error whose message contains the path looked up; it returns
\* no text (neither an empty nor a default template) and caches nothing,
\* and load_prompt raises in no other case.
C19_AbsentPromptRaises ==
    pm_call.op = "load_prompt" =>
        /\ (~pm_call.hit /\ ~pm_call.present) =>
              /\ pm_call.raised # << >>
              /\ Contains(pm_call.raised,
                          << "prompts", "/", pm_call.name, ".txt" >>)
              /\ pm_call.ret = [some |-> FALSE, val |-> << >>]
              /\ pm_call.name \notin prompt_cache
        /\ pm_call.raised # << >> => ~pm_call.hit /\ ~pm_call.present

\* The image prompt was never loaded and its file is absent: the call
\* raised.
C19_Witness ==
    /\ pm_call.op = "load_prompt"
    /\ pm_call.name = "resume_image_agent_prompt"
    /\ ~pm_call.hit
    /\ ~pm_call.present
    /\ pm_call.raised # << >>

(* --------------------------- claims: PDFProcessor ---------------------- *)

\* C20: the extractor is lenient.  For a path that does not exist,
\* extract_text and convert_to_images raise a not-found error naming the
\* path; for an existing file neither raises, and when reading or
\* converting it fails extract_text returns the empty string and
\* convert_to_images the empty list.
C20_LenientExtractor ==
    pdf_call.op \in {"extract_text", "convert_to_images"} =>
        /\ ~pdf_call.exists =>
              pdf_call.raised = << "PDF file not found: " >> \o pdf_call.path
        /\ pdf_call.exists => pdf_call.raised = << >>
        /\ (pdf_call.exists /\ pdf_call.failed) =>
              /\ pdf_call.op = "extract_text" => pdf_call.text = << >>
              /\ pdf_call.op = "convert_to_images" => pdf_call.images = << >>

\* a.pdf exists but cannot be converted: the call returned [] and did not
\* raise.
C20_Witness ==
    /\ pdf_call.op = "convert_to_images"
    /\ pdf_call.path = <<"a", ".", "p", "d", "f">>
    /\ pdf_call.exists
    /\ pdf_call.failed
    /\ pdf_call.raised = << >>
    /\ pdf_call.images = << >>

(* ------------------------- claims: end to end -------------------------- *)

\* C21: with extracted text T and at least one page image, a draft and an
\* enhancement agent that pass T through and a conciseness agent that
\* appends " FINAL", the text pipeline ends after exactly one round (the
\* three agents spoke once each, in order), improve_resume_text returns T
\* followed by " FINAL", and improve_resume goes on to the image stage.
C21_PassThroughEndsAfterOneRound ==
    /\ []( /\ TextRunEnded =>
                /\ Len(messages) = 4
                /\ [i \in 2..4 |-> messages[i].source] =
                       [i \in 2..4 |->
                           << "ResumeDraftAgent", "ResumeEnhancementAgent",
                              "ResumeConcisenessAgent" >>[i - 1]]
                /\ messages[2].content = resume_text
                /\ messages[3].content = resume_text
                /\ messages[4].content =
                       resume_text \o <<" ", "F", "I", "N", "A", "L">>
           /\ TextReturned =>
                /\ resume_images # << >>
                /\ improved_text =
                       [some |-> TRUE,
                        val |-> <<"c", "v", " ", "F", "I", "N", "A", "L">>] )
    /\ [][ pc = "improve_resume" => pc' = "generate_resume_image" ]_vars

\* The image stage is running on "cv FINAL" after a run of three replies.
C21_Witness ==
    /\ pc = "image_stream"
    /\ Len(messages) = 4
    /\ resume_text = <<"c", "v">>
    /\ improved_text.val = <<"c", "v", " ", "F", "I", "N", "A", "L">>
    /\ image_task.text # << >>

(* ---------------------- claims: the shared client ---------------------- *)

\* The agents the team holds: the three text agents of the cached group and
\* the cached image agent.
HeldAgents ==
    (IF team.built
     THEN {"ResumeDraftAgent", "ResumeEnhancementAgent",
           "ResumeConcisenessAgent"}
     ELSE {})
    \cup (IF image_agent THEN {"ResumeImageAgent"} ELSE {})

\* C22: all agents held by one orchestrator (the three text agents of the
\* cached team and the cached image agent) are bound to one and the same
\* model client handle, whatever create_team, get_image_agent, client reads
\* and update_config calls were made.
C22_AgentsShareOneClient ==
    \A a \in HeldAgents : \A b \in HeldAgents :
        agent_client[a] = agent_client[b]

(* ------------------------- claims: file helpers ------------------------ *)

\* C23: generate_output_filename(input, suffix) is a pure function: it
\* touches no file and returns a path in the input's directory whose file
\* name is the input's stem, "_", the suffix (default "improved") and
\* ".pdf"; "r.pdf" gives "r_improved.pdf" and "a/b/r.pdf" gives
\* "a/b/r_improved.pdf".
C23_OutputFilenameBesideInput ==
    /\ [](fm_call.op = "generate_output_filename" =>
            LET inp == PathOf(fm_call.path)
                out == PathOf(fm_call.ret)
            IN  /\ out.anchor = inp.anchor
                /\ Len(out.parts) = Len(inp.parts)
                /\ \A i \in 1..(Len(inp.parts) - 1) : out.parts[i] = inp.parts[i]
                /\ out.parts[Len(out.parts)] =
                       Stem(fm_call.path) \o <<"_">> \o fm_call.arg
                           \o <<".", "p", "d", "f">>
                /\ fm_call.arg = <<"i", "m", "p", "r", "o", "v", "e", "d">> =>
                    /\ fm_call.path = <<"r", ".", "p", "d", "f">> =>
                          fm_call.ret =
                              <<"r", "_", "i", "m", "p", "r", "o", "v", "e",
                                "d", ".", "p", "d", "f">>
                    /\ fm_call.path =
                           <<"a", "/", "b", "/", "r", ".", "p", "d", "f">> =>
                          fm_call.ret =
                              <<"a", "/", "b", "/", "r", "_", "i", "m", "p",
                                "r", "o", "v", "e", "d", ".", "p", "d", "f">>)
    /\ [][ (fm_call' # fm_call /\ fm_call'.op = "generate_output_filename") =>
             /\ disk' = disk
             /\ ( /\ fm_call.op = "generate_output_filename"
                  /\ fm_call'.path = fm_call.path
                  /\ fm_call'.arg = fm_call.arg ) => fm_call'.ret = fm_call.ret
         ]_vars

\* "a/b/r.pdf" with the default suffix gave "a/b/r_improved.pdf".
C23_Witness ==
    /\ fm_call.op = "generate_output_filename"
    /\ fm_call.path = <<"a", "/", "b", "/", "r", ".", "p", "d", "f">>
    /\ fm_call.arg = <<"i", "m", "p", "r", "o", "v", "e", "d">>
    /\ fm_call.ret =
           <<"a", "/", "b", "/", "r", "_", "i", "m", "p", "r", "o", "v", "e",
             "d", ".", "p", "d", "f">>

\* C24: save_images writes the N images given as files numbered 1..N in
\* input order, named base name, "_", the two-digit zero-padded index and
\* ".png", and returns exactly those N paths in that order; for an empty
\* list it returns an empty list and writes no file, the target directory
\* being created all the same.
C24_SaveImagesNumbersInOrder ==
    /\ [](fm_call.op = "save_images" =>
            LET n == Len(fm_call.images)
                digits == <<"0", "1", "2", "3", "4", "5", "6", "7", "8", "9">>
            IN  /\ Len(fm_call.writes) = n
                /\ Len(fm_call.paths) = n
                /\ <<"o", "u", "t">> \in disk
                /\ \A i \in 1..n :
                    /\ fm_call.writes[i].image = fm_call.images[i]
                    /\ fm_call.writes[i].path = fm_call.paths[i]
                    /\ fm_call.paths[i] \in disk
                    /\ fm_call.paths[i] =
                           <<"o", "u", "t", "/">> \o fm_call.arg
                               \o << "_", digits[(i \div 10) + 1],
                                     digits[(i % 10) + 1],
                                     ".", "p", "n", "g" >>)
    /\ [][ ( /\ fm_call' # fm_call
              /\ fm_call'.op = "save_images"
              /\ fm_call'.images = << >> ) =>
             /\ fm_call'.paths = << >>
             /\ disk' = disk \cup { <<"o", "u", "t">> }
         ]_vars

\* Ten images given in falling order: the tenth file is "out/page_10.png"
\* and holds the image given last, the first is "out/page_01.png".
C24_Witness ==
    /\ fm_call.op = "save_images"
    /\ Len(fm_call.paths) = 10
    /\ fm_call.images[1] = 10
    /\ fm_call.writes[10].image = 1
    /\ fm_call.paths[1] =
           <<"o", "u", "t", "/", "p", "a", "g", "e", "_", "0", "1",
             ".", "p", "n", "g">>
    /\ fm_call.paths[10] =
           <<"o", "u", "t", "/", "p", "a", "g", "e", "_", "1", "0",
             ".", "p", "n", "g">>

\* C25: a path is accepted only if it exists and has a ".pdf" extension
\* whatever the case; existence is checked first (a missing path gives a
\* not-found error, an existing path of another kind a validation error);
\* validate_pdf_file and validate_pdf_path accept exactly the same paths.
C25_ValidatorsAgree ==
    fm_call.op \in {"validate_pdf_file", "validate_pdf_path"} =>
        /\ fm_call.raised = "" =>
              /\ fm_call.exists
              /\ EndsWith(Lower(fm_call.path), <<".", "p", "d", "f">>)
        /\ ~fm_call.exists => fm_call.raised = "FileNotFoundError"
        /\ (fm_call.exists /\ fm_call.raised # "") =>
              fm_call.raised = "ValueError"
        /\ (fm_call.raised = "") <=>
               (CliError(fm_call.path, fm_call.exists) = "")
        /\ (fm_call.raised = "") <=>
               (ProcessorError(fm_call.path, fm_call.exists) = "")

(* ------------- claims: ModelManager, failed updates and states --------- *)

\* C26: an update_config whose merged configuration fails validation
\* (such as an empty credential) raises and leaves the manager as it was:
\* the stored configuration is the one from before the call, a client
\* cached before the call is still cached, and the read of client that
\* follows returns that same client without building one.
C26_FailedUpdateChangesNothing ==
    [][ /\ (mm_call'.op = "update_config" /\ mm_call'.raised # "") =>
              /\ config' = config
              /\ client' = client
              /\ clients_built' = clients_built
              /\ client_args' = client_args
        /\ ( /\ mm_call.op = "update_config"
             /\ mm_call.raised # ""
             /\ mm_call.cached
             /\ mm_call'.op = "client" ) =>
               /\ mm_call'.cached
               /\ mm_call'.ret = client
               /\ client # 0
               /\ clients_built' = clients_built
      ]_vars

\* update_config(api_key="") raised the credential's message while the
\* first client was cached; it is cached still, the key is unchanged.
C26_Witness ==
    /\ mm_call.op = "update_config"
    /\ mm_call.raised = "AZURE_OPENAI_API_KEY is required"
    /\ mm_call.cached
    /\ client = 1
    /\ config.api_key # ""

\* C27: in every state of a ModelManager reached by client reads and
\* update_config calls, a cached client was constructed from exactly the
\* configuration now stored, and the stored configuration has its four
\* fields non-empty.
C27_CachedClientMatchesConfig ==
    /\ client # 0 =>
          client_args =
              [azure_deployment |-> config.deployment_name,
               model |-> config.deployment_name,
               api_key |-> config.api_key,
               azure_endpoint |-> config.endpoint,
               api_version |-> config.api_version]
    /\ config # NoConfig =>
          /\ config.api_key # ""
          /\ config.endpoint # ""
          /\ config.api_version # ""
          /\ config.deployment_name # ""

\* The second client is cached, built after update_config replaced the key
\* "k" by "x" and the deployment name.
C27_Witness ==
    /\ client = 2
    /\ prior_config # NoConfig
    /\ prior_config.api_key = "k"
    /\ config.api_key = "x"
    /\ config.deployment_name = "x"
    /\ client_args.api_key = "x"
    /\ client_args.model = "x"

(* ---------------------- claims: the ended text run --------------------- *)

C29_FailedBuildLeavesCacheEmpty ==
    /\ []((tm_call.op = "create_team" /\ tm_call.raised) => ~team.built)
    /\ [][ /\ (~team.built /\ team'.built) =>
                 \A a \in {"ResumeDraftAgent", "ResumeEnhancementAgent",
                           "ResumeConcisenessAgent"} :
                     constructed'[a] = constructed[a] + 1
           /\ (pm_call' # pm_call /\ pm_call'.raised # << >>) =>
                 /\ prompt_cache' = prompt_cache
                 /\ cached_text' = cached_text
                 /\ pm_call'.name \notin prompt_cache'
           /\ ( /\ pm_call.op = "load_prompt"
                /\ pm_call.raised # << >>
                /\ pm_call'.name = pm_call.name
                /\ pm_call'.raised = << >>
                /\ pm_call.name \notin prompt_cache ) =>
                  /\ file_reads'[pm_call.name] = file_reads[pm_call.name] + 1
                  /\ ~pm_call'.hit
                  /\ pm_call.name \in prompt_cache'
         ]_vars

\* The team was built by a create_team that followed a failed one (the
\* draft agent exists twice), and the last load_prompt failed, its name
\* not being cached.
C29_Witness ==
    /\ team.built
    /\ tm_call.op = "create_team"
    /\ ~tm_call.raised
    /\ constructed["ResumeDraftAgent"] = 2
    /\ constructed["ResumeConcisenessAgent"] = 1
    /\ pm_call.op = "load_prompt"
    /\ pm_call.raised # << >>
    /\ pm_call.name \notin prompt_cache

(* ------------------------ claims: empty results ------------------------ *)

\* C30: an empty string counts as no result.  When the text pipeline's last
\* message has empty content, improve_resume returns None without invoking
\* the image stage; when the image stage's last message has empty content,
\* no export is attempted; either way the run reports that no improved
\* resume was generated.
C30_EmptyStringIsNoResult ==
    /\ ( /\ TextReturned
         /\ improve_result.kind = "TaskResult"
         /\ improve_result.messages # << >>
         /\ improve_result.messages[Len(improve_result.messages)].content
                = << >> ) =>
           /\ improved_text = [some |-> TRUE, val |-> << >>]
           /\ ~ImageStageStarted
           /\ final_content = [some |-> FALSE, val |-> << >>]
           /\ save_calls = 0
           /\ pc \in {"improve_resume", "exited"}
           /\ pc = "exited" => outcome = "no_improved_resume"
    /\ ( /\ ImageReturned
         /\ result.kind = "TaskResult"
         /\ result.messages # << >>
         /\ result.messages[Len(result.messages)].content = << >> ) =>
           /\ final_content = [some |-> TRUE, val |-> << >>]
           /\ save_calls = 0
           /\ output_path = << >>
           /\ pc \in {"report", "exited"}
           /\ pc = "exited" => outcome = "no_improved_resume"

\* The text pipeline's stream ended on a message with empty content and
\* the run is over: nothing was generated, the image stage never started.
C30_Witness ==
    /\ pc = "exited"
    /\ outcome = "no_improved_resume"
    /\ Len(messages) = 2
    /\ messages[2].content = << >>
    /\ improved_text = [some |-> TRUE, val |-> << >>]
    /\ image_task = NoTask

====
